---- MODULE Spec2Model ----
(***************************************************************************)
(* CLMS: land plots, sale transactions and commissions.                    *)
(*                                                                         *)
(* The entity store (plots, users, transactions) is shared by requests     *)
(* that run in parallel.  Every service method is an async function: it    *)
(* yields at each `await` of a store operation, so one step of the model   *)
(* is one store operation together with the synchronous code that follows  *)
(* it up to the next await.                                                *)
(*                                                                         *)
(* Money is counted in cents, commission rates in 1/10000 (basis points):  *)
(* salePrice 333 is 3.33, commissionRate 1500 is 0.15.                     *)
(***************************************************************************)
EXTENDS Integers, Sequences, FiniteSets, TLC

\* ---------------------------------------------------------------- bounds
MaxCalls == 2
MaxAdmins == 1
MaxPlots == 2
MaxPrice == 12
MaxDay == 3
MaxRows == 3
MaxPage == 3
MaxUsers == 3
MaxLog == 2
MaxTime == 3
MaxHits == 5

\* ------------------------------------------------------------- constants
None == "none"
\* an absent number (undefined, or NaN after parseFloat)
NoNum == -1

DefaultCommissionRate == 1000
RateScale == 10000
MinSalePrice == 1
MinCommissionRate == 0
MaxCommissionRate == 10000

Statuses == {"AVAILABLE", "SOLD", "DISPUTED", "RESERVED"}

Calls == 1..MaxCalls
Admins == 1..MaxAdmins
PlotIds == 1..MaxPlots
\* one id more than the store can hold: an id that references no plot
LookupIds == 1..(MaxPlots + 1)
UserIds == {1, 2}

\* new Date(): the day a call runs on, as a day number
Today == 2

\* days are numbered from 1 and a month has this many of them
MonthDays == 2

\* process.env.COMMISSION_RATE after parseFloat: unset (NaN) or a number
EnvRates == {NoNum, 500}

\* ---------------------------------------------------------- error texts
ErrPlotNotFound == "Land plot not found"
ErrAlreadySold == "Land plot is already sold"
ErrDisputed == "Cannot sell disputed land plot"
ErrUserNotFound == "User not found"
ErrValidation == "Validation failed"
ErrMarkedSold == "Land plot is already marked as sold"
ErrPlotExists == "Plot number already exists"
ErrUnique == "SequelizeUniqueConstraintError"
ErrTxNotFound == "Transaction not found"
ErrNoFields == "No valid fields to update"
ErrSalePrice == "Valid sale price is required"
ErrEmailExists == "User with this email already exists"
ErrInvalidRole == "Invalid role specified"

\* ---------------------------------------------------------- plot numbers
\* a string is a sequence of one-character strings
ToUpperChar(ch) ==
    CASE ch = "g" -> "G"
      [] ch = "b" -> "B"
      [] OTHER -> ch

ToUpperCase(s) == [i \in 1..Len(s) |-> ToUpperChar(s[i])]

RECURSIVE TrimStart(_)
TrimStart(s) ==
    IF s # <<>> /\ Head(s) = " " THEN TrimStart(Tail(s)) ELSE s

RECURSIVE TrimEnd(_)
TrimEnd(s) ==
    IF s # <<>> /\ s[Len(s)] = " " THEN TrimEnd(SubSeq(s, 1, Len(s) - 1)) ELSE s

Trim(s) == TrimEnd(TrimStart(s))

\* landData.plotNumber.toUpperCase().trim()
NormalizePlotNumberNoTrim(s) == ToUpperCase(s)

NormalizePlotNumber(s) == Trim(ToUpperCase(s))

RawPlotNumbers == {<<"G", "1">>, <<"g", "1", " ">>, <<"G", "2">>}

\* ------------------------------------------------------------ commission
\* Number.prototype.toFixed(2) of (cents * basisPoints / RateScale) cents:
\* the nearest cent, on a tie the one farther from zero
ToFixed2(scaled) ==
    LET abs == IF scaled < 0 THEN 0 - scaled ELSE scaled
        n == (2 * abs + RateScale) \div (2 * RateScale)
    IN  IF scaled < 0 THEN 0 - n ELSE n

\* a || b || c on numbers: 0 and NaN (None) are falsy
OrElse(a, b) == IF a # NoNum /\ a # 0 THEN a ELSE b

ResolveRate(supplied, env) == OrElse(supplied, OrElse(env, DefaultCommissionRate))

\* the hook with the amount cut off after the cent instead of rounded
BeforeValidateTruncates(t) ==
    IF t.salePrice # 0 /\ t.salePrice # NoNum /\ t.commissionRate # NoNum
    THEN [t EXCEPT !.commissionAmount = (t.salePrice * t.commissionRate) \div RateScale]
    ELSE t

\* hooks.beforeValidate: the amount is derived from price and rate
BeforeValidate(t) ==
    IF t.salePrice # 0 /\ t.salePrice # NoNum /\ t.commissionRate # NoNum
    THEN [t EXCEPT !.commissionAmount = ToFixed2(t.salePrice * t.commissionRate)]
    ELSE t

TransactionValid(t) ==
    /\ t.salePrice >= MinSalePrice
    /\ t.commissionRate >= MinCommissionRate
    /\ t.commissionRate <= MaxCommissionRate

calculateCommission(salePrice, commissionRate, env) ==
    LET rate == ResolveRate(commissionRate, env)
        commission == ToFixed2(salePrice * rate)
    IN  [salePrice |-> salePrice,
         commissionRate |-> rate,
         commissionAmount |-> commission,
         netAmount |-> salePrice - commission]


\* ----------------------------------------------------------------- state
VARIABLES
    plots,          \* land_plots table: id -> row
    users,          \* ids of the rows of the users table
    transactions,   \* transactions table, in insertion order; id = position
    envRate,        \* process.env.COMMISSION_RATE
    pc,             \* recordTransaction calls: the await each one is at,
                    \* or "done" (it returned) or "failed" (it threw)
    args,           \* (transactionData, createdBy) of a call in flight
    loc,            \* locals of a call in flight
    apc,            \* land / update requests: the await each one is at
    aargs,          \* arguments of a land / update request in flight
    aloc,           \* the instance a land request loaded
    resp,           \* the response of the request that just finished
    calcIn,         \* calculateCommission: arguments
    calcOut,        \* calculateCommission: returned breakdown
    statPc,         \* getTransactionStatistics: the await it is at
    statIn,         \* getTransactionStatistics: filters
    statRes,        \* getTransactionStatistics: the row of aggregates read
    statOut,        \* getTransactionStatistics: returned statistics
    http,           \* the HTTP request at the routers: token's role, route,
                    \* and how far it got
    listPc,         \* getAllTransactions / getTransactionsByUser: the await
                    \* the call is at
    listIn,         \* the options (and userId) the client pages with
    listOut,        \* what the calls returned, one entry per call
    readOut,        \* what getTransactionById / getRecentTransactions
                    \* returned last
    emails,         \* users table: id -> email
    regPc,          \* AuthService.register: the await the call is at
    regIn,          \* userData of the call
    regOut,         \* what the call returned or threw
    reply,          \* POST /transactions: what the controller answered last
    mwLog,          \* requireRole: the requests the middleware handled
    clock,          \* rateLimit: Date.now() at the latest request
    requests,       \* rateLimit: the Map clientId -> timestamps
    rlLog           \* rateLimit: the requests the middleware handled

vars == <<plots, users, transactions, envRate, pc, args, loc,
          apc, aargs, aloc, resp, calcIn, calcOut,
          statPc, statIn, statRes, statOut, http,
          listPc, listIn, listOut, readOut,
          emails, regPc, regIn, regOut, reply,
          mwLog, clock, requests, rlLog>>

store == <<plots, users, transactions>>
callVars == <<pc, args, loc>>
adminVars == <<apc, aargs, aloc>>
calcVars == <<calcIn, calcOut>>
statVars == <<statPc, statIn, statRes, statOut>>
listVars == <<listPc, listIn, listOut>>

\* the state of the operations that the requests below never touch
authVars == <<emails, regPc, regIn, regOut>>
\* the state of the controllers and middleware
rateVars == <<clock, requests, rlLog>>
webVars == <<reply, mwLog, rateVars>>
moreVars == <<listVars, readOut, authVars, webVars>>

NoPlot == [exists |-> FALSE, plotNumber |-> <<>>, status |-> None]
NoArgs == [landPlotId |-> NoNum, createdBy |-> NoNum, salePrice |-> NoNum,
           commissionRate |-> NoNum, commissionAmount |-> NoNum]
NoLoc == [rate |-> NoNum, tx |-> 0, len0 |-> 0]
NoAArgs == [op |-> None, id |-> NoNum, plotNumber |-> <<>>, status |-> None,
            patch |-> {}]
NoALoc == [status |-> None, plotNumber |-> <<>>]
NoResp == [op |-> None, status |-> None, error |-> None, id |-> NoNum,
           tx |-> 0, plotStatus |-> None]

\* Model.findByPk(id) on land_plots
FindPlot(id) == IF id \in PlotIds THEN plots[id] ELSE NoPlot

\* the rows of the transactions table that reference a plot
TxOfPlot(p) == {i \in 1..Len(transactions) : transactions[i].landPlotId = p}

\* no request finishes in this step
NoResponse == UNCHANGED resp

\* the client takes the response
Deliver ==
    /\ resp # NoResp
    /\ resp' = NoResp
    /\ UNCHANGED <<plots, users, transactions, envRate, pc, args, loc,
                   apc, aargs, aloc, calcIn, calcOut, statVars, http, moreVars>>

\* ------------------------------------------------- recordTransaction
\* inputs of the calls that run in parallel
SmallInputs ==
    { [landPlotId |-> p, createdBy |-> u, salePrice |-> 333,
       commissionRate |-> 1500, commissionAmount |-> NoNum] :
        p \in LookupIds, u \in UserIds }

\* inputs of the calls that run one at a time: createdBy, salePrice,
\* commissionRate and a commissionAmount the caller adds
RichData ==
    { <<1, 333, 1500, NoNum>>,      \* a rate is supplied
      <<1, 333, NoNum, 7>>,         \* no rate, and an amount of the caller's
      <<1, 333, 0, NoNum>>,         \* the rate 0
      <<2, 333, 1500, NoNum>>,      \* no such user
      <<1, 0, 1500, NoNum>>,        \* a price the model rejects
      <<1, 333, 12000, NoNum>> }    \* a rate the model rejects

RichInputs ==
    { [landPlotId |-> p, createdBy |-> d[1], salePrice |-> d[2],
       commissionRate |-> d[3], commissionAmount |-> d[4]] :
        p \in LookupIds, d \in RichData }

\* the response is recorded where a client waits for it (obs)
Observe(obs, response) == resp' = IF obs THEN response ELSE NoResp

\* the call throws; tx is the row it had written by then (0: none)
Fail(c, msg, plot, obs) ==
    /\ pc' = [pc EXCEPT ![c] = "failed"]
    /\ Observe(obs, [op |-> "recordTransaction", status |-> "error", error |-> msg,
                     id |-> plot, tx |-> loc[c].tx, plotStatus |-> None])
    /\ args' = [args EXCEPT ![c] = NoArgs]
    /\ loc' = [loc EXCEPT ![c] = NoLoc]

\* the checks without the one for a disputed plot
PlotCheckNoDisputed(landPlot) ==
    IF ~landPlot.exists THEN ErrPlotNotFound
    ELSE IF landPlot.status = "SOLD" THEN ErrAlreadySold
    ELSE "ok"

\* the checks on the plot that was loaded
PlotCheck(landPlot) ==
    IF ~landPlot.exists THEN ErrPlotNotFound
    ELSE IF landPlot.status = "SOLD" THEN ErrAlreadySold
    ELSE IF landPlot.status = "DISPUTED" THEN ErrDisputed
    ELSE "ok"

\* the user is looked up before the plot
RtFindPlotUserFirst(c, Inputs, obs) ==
    /\ pc[c] = "idle"
    /\ \E in \in Inputs :
         LET check == IF in.createdBy \notin users THEN ErrUserNotFound
                      ELSE PlotCheck(FindPlot(in.landPlotId))
         IN  IF check # "ok"
             THEN Fail(c, check, in.landPlotId, obs)
             ELSE /\ pc' = [pc EXCEPT ![c] = "rt_findUser"]
                  /\ args' = [args EXCEPT ![c] = in]
                  /\ loc' = [loc EXCEPT ![c].len0 = Len(transactions)]
                  /\ NoResponse
    /\ UNCHANGED <<store, envRate, adminVars, calcVars, statVars, http, moreVars>>

\* the call starts: await LandPlot.findByPk(landPlotId) and the checks on
\* the plot
RtFindPlot(c, Inputs, obs) ==
    /\ pc[c] = "idle"
    /\ \E in \in Inputs :
         LET check == PlotCheck(FindPlot(in.landPlotId))
         IN  IF check # "ok"
             THEN Fail(c, check, in.landPlotId, obs)
             ELSE /\ pc' = [pc EXCEPT ![c] = "rt_findUser"]
                  /\ args' = [args EXCEPT ![c] = in]
                  /\ loc' = [loc EXCEPT ![c].len0 = Len(transactions)]
                  /\ NoResponse
    /\ UNCHANGED <<store, envRate, adminVars, calcVars, statVars, http, moreVars>>

\* await User.findByPk(createdBy), then the commission rate is resolved
RtFindUser(c, obs) ==
    /\ pc[c] = "rt_findUser"
    /\ IF args[c].createdBy \notin users
       THEN Fail(c, ErrUserNotFound, args[c].landPlotId, obs)
       ELSE /\ pc' = [pc EXCEPT ![c] = "rt_create"]
            /\ loc' = [loc EXCEPT ![c].rate =
                          ResolveRate(args[c].commissionRate, envRate)]
            /\ NoResponse
            /\ UNCHANGED args
    /\ UNCHANGED <<store, envRate, adminVars, calcVars, statVars, http, moreVars>>

\* the object with the creator's id in the column of the plot
NewTransactionWrongPlot(data, createdBy, rate) ==
    [landPlotId |-> createdBy,
     salePrice |-> data.salePrice,
     commissionRate |-> rate,
     commissionAmount |-> 0,
     createdBy |-> createdBy,
     buyerName |-> "n0",
     sellerName |-> "n0",
     buyerContact |-> "c0",
     sellerContact |-> "c0",
     transactionDate |-> Today,
     receiptPath |-> None]

\* the object handed to Transaction.create: commissionAmount is not copied
NewTransaction(data, createdBy, rate) ==
    [landPlotId |-> data.landPlotId,
     salePrice |-> data.salePrice,
     commissionRate |-> rate,
     commissionAmount |-> 0,
     createdBy |-> createdBy,
     buyerName |-> "n0",
     sellerName |-> "n0",
     buyerContact |-> "c0",
     sellerContact |-> "c0",
     transactionDate |-> Today,
     receiptPath |-> None]

\* await Transaction.create(...): hook, validation, insert
RtCreate(c, obs) ==
    /\ pc[c] = "rt_create"
    /\ LET t == BeforeValidate(NewTransaction(args[c], args[c].createdBy, loc[c].rate))
       IN  IF ~TransactionValid(t)
           THEN /\ Fail(c, ErrValidation, args[c].landPlotId, obs)
                /\ UNCHANGED transactions
           ELSE /\ transactions' = Append(transactions, t)
                /\ loc' = [loc EXCEPT ![c].tx = Len(transactions) + 1]
                /\ pc' = [pc EXCEPT ![c] = "ms_find"]
                /\ NoResponse
                /\ UNCHANGED args
    /\ UNCHANGED <<plots, users, envRate, adminVars, calcVars, statVars, http, moreVars>>

\* the checks of recordTransaction copied over: a disputed plot is turned away
MarkCheckRejectsDisputed(landPlot) ==
    IF ~landPlot.exists THEN ErrPlotNotFound
    ELSE IF landPlot.status = "SOLD" THEN ErrMarkedSold
    ELSE IF landPlot.status = "DISPUTED" THEN ErrDisputed
    ELSE "ok"

\* markAsSold: the checks on the plot that was loaded
MarkCheck(landPlot) ==
    IF ~landPlot.exists THEN ErrPlotNotFound
    ELSE IF landPlot.status = "SOLD" THEN ErrMarkedSold
    ELSE "ok"

\* LandService.markAsSold: await LandPlot.findByPk(plotId)
MsFind(c, obs) ==
    /\ pc[c] = "ms_find"
    /\ LET check == MarkCheck(FindPlot(args[c].landPlotId))
       IN  IF check # "ok"
           THEN Fail(c, check, args[c].landPlotId, obs)
           ELSE /\ pc' = [pc EXCEPT ![c] = "ms_update"]
                /\ NoResponse
                /\ UNCHANGED <<args, loc>>
    /\ UNCHANGED <<store, envRate, adminVars, calcVars, statVars, http, moreVars>>

\* an update that is never saved
MsUpdateNotSaved(c) ==
    /\ pc[c] = "ms_update"
    /\ pc' = [pc EXCEPT ![c] = "rt_refetch"]
    /\ NoResponse
    /\ UNCHANGED <<store, envRate, args, loc, adminVars, calcVars, statVars, http, moreVars>>

\* an update of the table without a where clause: every plot is marked
MsUpdateEveryPlot(c) ==
    /\ pc[c] = "ms_update"
    /\ plots' = [q \in PlotIds |->
                  IF plots[q].exists THEN [plots[q] EXCEPT !.status = "SOLD"]
                  ELSE plots[q]]
    /\ pc' = [pc EXCEPT ![c] = "rt_refetch"]
    /\ NoResponse
    /\ UNCHANGED <<users, transactions, envRate, args, loc, adminVars, calcVars, statVars, http, moreVars>>

\* LandService.markAsSold: await landPlot.update({ status: 'SOLD' })
MsUpdate(c) ==
    /\ pc[c] = "ms_update"
    /\ plots' = [plots EXCEPT ![args[c].landPlotId].status = "SOLD"]
    /\ pc' = [pc EXCEPT ![c] = "rt_refetch"]
    /\ NoResponse
    /\ UNCHANGED <<users, transactions, envRate, args, loc, adminVars, calcVars, statVars, http, moreVars>>

\* await Transaction.findByPk(transaction.id, { include: landPlot, creator })
RtRefetch(c, obs) ==
    /\ pc[c] = "rt_refetch"
    /\ pc' = [pc EXCEPT ![c] = "done"]
    /\ Observe(obs, [op |-> "recordTransaction", status |-> "ok", error |-> None,
                     id |-> transactions[loc[c].tx].landPlotId,
                     tx |-> loc[c].tx,
                     plotStatus |-> FindPlot(transactions[loc[c].tx].landPlotId).status])
    /\ args' = [args EXCEPT ![c] = NoArgs]
    /\ loc' = [loc EXCEPT ![c] = NoLoc]
    /\ UNCHANGED <<store, envRate, adminVars, calcVars, statVars, http, moreVars>>


\* ------------------------------------------------------ land requests
\* some plot other than `except` carries the (normalised) number
NumberTaken(number, except) ==
    \E q \in PlotIds : q # except /\ plots[q].exists /\ plots[q].plotNumber = number

FreePlotIds == {q \in PlotIds : ~plots[q].exists}

\* the id the store gives the next plot
NextPlotId == CHOOSE q \in FreePlotIds : \A r \in FreePlotIds : q <= r

\* the request returns (status "ok") or throws (status "error")
Respond(a, in, status, error, obs) ==
    /\ apc' = [apc EXCEPT ![a] = "idle"]
    /\ Observe(obs, [op |-> in.op, status |-> status, error |-> error, id |-> in.id,
                     tx |-> 0, plotStatus |-> None])
    /\ aargs' = [aargs EXCEPT ![a] = NoAArgs]
    /\ aloc' = [aloc EXCEPT ![a] = NoALoc]

\* the request goes on to its next await
Goto(a, in, label) ==
    /\ apc' = [apc EXCEPT ![a] = label]
    /\ aargs' = [aargs EXCEPT ![a] = in]
    /\ NoResponse

CreateInputs(Numbers, Sts) ==
    { [op |-> "createLandPlot", id |-> NoNum, plotNumber |-> n, status |-> st,
       patch |-> {}] : n \in Numbers, st \in Sts }

UpdateInputs(Numbers, Sts) ==
    { [op |-> "updateLandPlot", id |-> p, plotNumber |-> n, status |-> st,
       patch |-> {}] : p \in LookupIds, n \in Numbers, st \in Sts }

MarkInputs ==
    { [op |-> "markAsSold", id |-> p, plotNumber |-> <<>>, status |-> None,
       patch |-> {}] : p \in LookupIds }

\* LandService.createLandPlot starts:
\* await LandPlot.findOne({ where: { plotNumber } })
ClFindOne(a, Numbers, Sts, obs) ==
    /\ apc[a] = "idle"
    /\ Cardinality(FreePlotIds) > Cardinality({b \in Admins : apc[b] = "cl_create"})
    /\ \E in \in CreateInputs(Numbers, Sts) :
         IF NumberTaken(NormalizePlotNumber(in.plotNumber), NoNum)
         THEN Respond(a, in, "error", ErrPlotExists, obs)
         ELSE Goto(a, in, "cl_create") /\ UNCHANGED aloc
    /\ UNCHANGED <<store, envRate, callVars, calcVars, statVars, http, moreVars>>

\* landData.status || 'AVAILABLE'
StatusOrDefault(st) == IF st = None THEN "AVAILABLE" ELSE st

\* await LandPlot.create(...): the hook normalises the number again and the
\* column plotNumber is unique
ClCreate(a, obs) ==
    /\ apc[a] = "cl_create"
    /\ LET number == NormalizePlotNumber(NormalizePlotNumber(aargs[a].plotNumber))
       IN  IF NumberTaken(number, NoNum)
           THEN Respond(a, aargs[a], "error", ErrUnique, obs) /\ UNCHANGED plots
           ELSE /\ plots' = [plots EXCEPT ![NextPlotId] =
                                [exists |-> TRUE, plotNumber |-> number,
                                 status |-> StatusOrDefault(aargs[a].status)]]
                /\ Respond(a, [aargs[a] EXCEPT !.id = NextPlotId], "ok", None, obs)
    /\ UNCHANGED <<users, transactions, envRate, callVars, calcVars, statVars, http, moreVars>>

\* LandService.updateLandPlot starts: await LandPlot.findByPk(plotId)
UlFind(a, Numbers, Sts, obs) ==
    /\ apc[a] = "idle"
    /\ \E in \in UpdateInputs(Numbers, Sts) :
         LET landPlot == FindPlot(in.id)
         IN  IF ~landPlot.exists
             THEN Respond(a, in, "error", ErrPlotNotFound, obs)
             ELSE /\ aloc' = [aloc EXCEPT ![a] = [status |-> landPlot.status,
                                                  plotNumber |-> landPlot.plotNumber]]
                  /\ IF in.plotNumber # <<>> /\ in.plotNumber # landPlot.plotNumber
                     THEN Goto(a, in, "ul_findOne")
                     ELSE Goto(a, in, "ul_update")
    /\ UNCHANGED <<store, envRate, callVars, calcVars, statVars, http, moreVars>>

\* await LandPlot.findOne({ where: { plotNumber, id: { [Op.ne]: plotId } } })
UlFindOne(a, obs) ==
    /\ apc[a] = "ul_findOne"
    /\ IF NumberTaken(NormalizePlotNumber(aargs[a].plotNumber), aargs[a].id)
       THEN Respond(a, aargs[a], "error", ErrPlotExists, obs)
       ELSE Goto(a, aargs[a], "ul_update") /\ UNCHANGED aloc
    /\ UNCHANGED <<store, envRate, callVars, calcVars, statVars, http, moreVars>>

\* an update that falls back to AVAILABLE, as createLandPlot does
UpdatedPlotStatusDefaulted(row, updateData) ==
    [row EXCEPT
       !.plotNumber = IF updateData.plotNumber # <<>>
                      THEN NormalizePlotNumber(updateData.plotNumber) ELSE @,
       !.status = IF updateData.status # None THEN updateData.status ELSE "AVAILABLE"]

\* the row after landPlot.update(updateData) wrote the keys of updateData
UpdatedPlot(row, updateData) ==
    [row EXCEPT
       !.plotNumber = IF updateData.plotNumber # <<>>
                      THEN NormalizePlotNumber(updateData.plotNumber) ELSE @,
       !.status = IF updateData.status # None THEN updateData.status ELSE @]

\* an update that gives every plot the status
UlUpdateEveryPlot(a, obs) ==
    /\ apc[a] = "ul_update"
    /\ LET id == aargs[a].id
           differs == \/ aargs[a].status # None /\ aargs[a].status # aloc[a].status
                      \/ aargs[a].plotNumber # <<>> /\ aargs[a].plotNumber # aloc[a].plotNumber
           new == UpdatedPlot(plots[id], aargs[a])
       IN  \E write \in BOOLEAN :
             /\ differs => write
             /\ IF write /\ NumberTaken(new.plotNumber, id)
                THEN Respond(a, aargs[a], "error", ErrUnique, obs) /\ UNCHANGED plots
                ELSE /\ plots' = IF write
                                THEN [q \in PlotIds |->
                                        IF q = id THEN new
                                        ELSE IF plots[q].exists
                                             THEN [plots[q] EXCEPT !.status = new.status]
                                             ELSE plots[q]]
                                ELSE plots
                     /\ Respond(a, aargs[a], "ok", None, obs)
    /\ UNCHANGED <<users, transactions, envRate, callVars, calcVars, statVars, http, moreVars>>

\* await landPlot.update(updateData).  The instance saves the keys of
\* updateData; when no value differs from the loaded instance the save may
\* be skipped, which depends on the fields the model does not carry.
UlUpdate(a, obs) ==
    /\ apc[a] = "ul_update"
    /\ LET id == aargs[a].id
           differs == \/ aargs[a].status # None /\ aargs[a].status # aloc[a].status
                      \/ aargs[a].plotNumber # <<>> /\ aargs[a].plotNumber # aloc[a].plotNumber
           new == UpdatedPlot(plots[id], aargs[a])
       IN  \E write \in BOOLEAN :
             /\ differs => write
             /\ IF write /\ NumberTaken(new.plotNumber, id)
                THEN Respond(a, aargs[a], "error", ErrUnique, obs) /\ UNCHANGED plots
                ELSE /\ plots' = IF write THEN [plots EXCEPT ![id] = new] ELSE plots
                     /\ Respond(a, aargs[a], "ok", None, obs)
    /\ UNCHANGED <<users, transactions, envRate, callVars, calcVars, statVars, http, moreVars>>

\* PATCH /:id/mark-sold -> LandService.markAsSold starts:
\* await LandPlot.findByPk(plotId)
MkFind(a, obs) ==
    /\ apc[a] = "idle"
    /\ \E in \in MarkInputs :
         LET check == MarkCheck(FindPlot(in.id))
         IN  IF check # "ok"
             THEN Respond(a, in, "error", check, obs)
             ELSE Goto(a, in, "mk_update") /\ UNCHANGED aloc
    /\ UNCHANGED <<store, envRate, callVars, calcVars, statVars, http, moreVars>>

\* await landPlot.update({ status: 'SOLD' })
MkUpdate(a, obs) ==
    /\ apc[a] = "mk_update"
    /\ plots' = [plots EXCEPT ![aargs[a].id].status = "SOLD"]
    /\ Respond(a, aargs[a], "ok", None, obs)
    /\ UNCHANGED <<users, transactions, envRate, callVars, calcVars, statVars, http, moreVars>>

\* ------------------------------------------------- updateTransaction
AllowedFields == {"buyerContact", "sellerContact", "receiptPath"}

TxInputs(Patches) ==
    { [op |-> "updateTransaction", id |-> t, plotNumber |-> <<>>, status |-> None,
       patch |-> d] : t \in 1..(MaxCalls + 1), d \in Patches }

\* the value a patch carries for a key
PatchValue(key) ==
    CASE key = "buyerContact" -> "c1"
      [] key = "sellerContact" -> "c1"
      [] key = "receiptPath" -> "r1"
      [] key = "buyerName" -> "n1"
      [] key = "salePrice" -> 444
      [] key = "createdBy" -> 2
      [] OTHER -> None

\* every key of updateData is copied
CleanUpdateDataUnfiltered(updateData) == updateData

\* the keys of updateData that are in allowedFields
CleanUpdateData(updateData) == updateData \cap AllowedFields

\* the row after transaction.update(cleanUpdateData): the keys of
\* cleanUpdateData are written, then the hook runs
PatchedTransaction(row, clean) ==
    BeforeValidate(
      [k \in DOMAIN row |-> IF k \in clean THEN PatchValue(k) ELSE row[k]])

\* the whitelist is looked at before the row that was loaded
UpdateCheckFieldsFirst(found, clean) ==
    IF clean = {} THEN ErrNoFields
    ELSE IF ~found THEN ErrTxNotFound
    ELSE "ok"

\* updateTransaction: the checks on the row that was loaded and on the
\* keys that are left of the patch
UpdateCheck(found, clean) ==
    IF ~found THEN ErrTxNotFound
    ELSE IF clean = {} THEN ErrNoFields
    ELSE "ok"

\* TransactionService.updateTransaction starts:
\* await Transaction.findByPk(transactionId), then the whitelist
UtFind(a, Patches, obs) ==
    /\ apc[a] = "idle"
    /\ \E in \in TxInputs(Patches) :
         LET check == UpdateCheck(in.id \in 1..Len(transactions),
                                  CleanUpdateData(in.patch))
         IN  IF check # "ok"
             THEN Respond(a, in, "error", check, obs)
             ELSE Goto(a, in, "ut_update") /\ UNCHANGED aloc
    /\ UNCHANGED <<store, envRate, callVars, calcVars, statVars, http, moreVars>>

\* await transaction.update(cleanUpdateData), then
\* return this.getTransactionById(transactionId)
UtUpdate(a, obs) ==
    /\ apc[a] = "ut_update"
    /\ transactions' = [transactions EXCEPT ![aargs[a].id] =
                           PatchedTransaction(@, CleanUpdateData(aargs[a].patch))]
    /\ Respond(a, aargs[a], "ok", None, obs)
    /\ UNCHANGED <<plots, users, envRate, callVars, calcVars, statVars, http, moreVars>>

\* ---------------------------------------------- calculateCommission
NoCalc == [salePrice |-> NoNum, commissionRate |-> NoNum, commissionAmount |-> NoNum,
           netAmount |-> NoNum]

NoCalcIn == [salePrice |-> NoNum, commissionRate |-> NoNum]

CalcPrices == (1..MaxPrice) \cup {333, 50000} \cup {0, 0 - 1000}
CalcRates == {NoNum, 0, 1, 500, 1500, 10000}

CalcResponse(status, error) ==
    [op |-> "calculateCommission", status |-> status, error |-> error,
     id |-> NoNum, tx |-> 0, plotStatus |-> None]

\* POST /transactions/calculate-commission: the controller turns a price
\* that is missing, 0 or negative away and calls the service otherwise
Calc ==
    /\ calcIn # NoCalcIn
    /\ calcOut = NoCalc
    /\ resp = NoResp
    /\ IF calcIn.salePrice = 0 \/ calcIn.salePrice <= 0
       THEN /\ resp' = CalcResponse("error", ErrSalePrice)
            /\ UNCHANGED calcOut
       ELSE /\ calcOut' = calculateCommission(calcIn.salePrice, calcIn.commissionRate, envRate)
            /\ resp' = CalcResponse("ok", None)
    /\ UNCHANGED <<store, envRate, callVars, adminVars, calcIn, statVars, http, moreVars>>

\* a calculation that is kept as a Transaction
CalcServicePersists ==
    /\ calcIn # NoCalcIn
    /\ calcOut = NoCalc
    /\ resp = NoResp
    /\ calcOut' = calculateCommission(calcIn.salePrice, calcIn.commissionRate, envRate)
    /\ transactions' = Append(transactions,
                              BeforeValidate(NewTransaction([landPlotId |-> 1,
                                                             salePrice |-> calcIn.salePrice],
                                                            1, calcOut'.commissionRate)))
    /\ UNCHANGED <<plots, users, envRate, callVars, adminVars, resp, calcIn, statVars, http, moreVars>>

\* TransactionService.calculateCommission called by other code of the
\* process, as the service tests do
CalcService ==
    /\ calcIn # NoCalcIn
    /\ calcOut = NoCalc
    /\ resp = NoResp
    /\ calcOut' = calculateCommission(calcIn.salePrice, calcIn.commissionRate, envRate)
    /\ UNCHANGED <<store, envRate, callVars, adminVars, resp, calcIn, statVars, http, moreVars>>

\* ------------------------------------------- getTransactionStatistics
\* strftime('%Y-%m', transactionDate)
Month(day) == (day - 1) \div MonthDays + 1

InWhereClauseExclusive(row, filters) ==
    /\ filters.startDate # NoNum => row.transactionDate >= filters.startDate
    /\ filters.endDate # NoNum => row.transactionDate < filters.endDate

\* whereClause.transactionDate: Op.gte startDate, Op.lte endDate, each one
\* only when the filter is given
InWhereClause(row, filters) ==
    /\ filters.startDate # NoNum => row.transactionDate >= filters.startDate
    /\ filters.endDate # NoNum => row.transactionDate <= filters.endDate

\* the rows (ids) that findAll({ where: whereClause }) selects
Selected(filters) ==
    {i \in 1..Len(transactions) : InWhereClause(transactions[i], filters)}

RECURSIVE SumOf(_, _)
SumOf(S, col) ==
    IF S = {} THEN 0
    ELSE LET i == CHOOSE j \in S : TRUE
         IN  transactions[i][col] + SumOf(S \ {i}, col)

\* SQL aggregates: NULL (NoNum here) over no rows, except COUNT
SqlCount(S) == Cardinality(S)
SqlSum(S, col) == IF S = {} THEN NoNum ELSE SumOf(S, col)
SqlMin(S, col) ==
    IF S = {} THEN NoNum
    ELSE LET i == CHOOSE j \in S : \A k \in S : transactions[j][col] <= transactions[k][col]
         IN  transactions[i][col]
SqlMax(S, col) ==
    IF S = {} THEN NoNum
    ELSE LET i == CHOOSE j \in S : \A k \in S : transactions[j][col] >= transactions[k][col]
         IN  transactions[i][col]
\* AVG as the fraction sum / count; NULL is the fraction with count 0
SqlAvg(S, col) == [num |-> SumOf(S, col), den |-> Cardinality(S)]

\* parseFloat(avg) || 0
AvgOrZero(avg) ==
    IF avg.den = 0 \/ avg.num = 0 THEN [num |-> 0, den |-> 1] ELSE avg

NoStatIn == [startDate |-> NoNum, endDate |-> NoNum]

NoStatRes == [totalTransactions |-> NoNum, totalRevenue |-> NoNum,
              totalCommission |-> NoNum, averagePrice |-> [num |-> NoNum, den |-> 1],
              minPrice |-> NoNum, maxPrice |-> NoNum]

NoStats == [totalTransactions |-> NoNum, totalRevenue |-> NoNum,
            totalCommission |-> NoNum, averagePrice |-> [num |-> NoNum, den |-> 1],
            minPrice |-> NoNum, maxPrice |-> NoNum, netRevenue |-> NoNum,
            monthlyBreakdown |-> <<>>]

InitStatRequest ==
    /\ statPc = "idle"
    /\ statIn = NoStatIn
    /\ statRes = NoStatRes
    /\ statOut = NoStats

\* the months of a set of rows, latest first
RECURSIVE MonthsDesc(_)
MonthsDesc(M) ==
    IF M = {} THEN <<>>
    ELSE LET m == CHOOSE x \in M : \A y \in M : x >= y
         IN  <<m>> \o MonthsDesc(M \ {m})

\* the monthly query without the where clause
MonthlyBreakdownUnfiltered(S) ==
    LET all == DOMAIN transactions
        months == MonthsDesc({Month(transactions[i].transactionDate) : i \in all})
        InMonth(m) == {i \in all : Month(transactions[i].transactionDate) = m}
    IN  [n \in 1..Len(months) |->
           [month |-> months[n],
            transactions |-> SqlCount(InMonth(months[n])),
            revenue |-> OrElse(SqlSum(InMonth(months[n]), "salePrice"), 0),
            commission |-> OrElse(SqlSum(InMonth(months[n]), "commissionAmount"), 0)]]

\* the second findAll: one row per month of the selected rows, mapped
MonthlyBreakdown(S) ==
    LET months == MonthsDesc({Month(transactions[i].transactionDate) : i \in S})
        InMonth(m) == {i \in S : Month(transactions[i].transactionDate) = m}
    IN  [n \in 1..Len(months) |->
           [month |-> months[n],
            transactions |-> SqlCount(InMonth(months[n])),
            revenue |-> OrElse(SqlSum(InMonth(months[n]), "salePrice"), 0),
            commission |-> OrElse(SqlSum(InMonth(months[n]), "commissionAmount"), 0)]]

StatisticsNoDefault(result, monthly) ==
    [totalTransactions |-> result.totalTransactions,
     totalRevenue |-> result.totalRevenue,
     totalCommission |-> result.totalCommission,
     averagePrice |-> result.averagePrice,
     minPrice |-> result.minPrice,
     maxPrice |-> result.maxPrice,
     netRevenue |-> result.totalRevenue - result.totalCommission,
     monthlyBreakdown |-> monthly]

\* the object that is returned
Statistics(result, monthly) ==
    [totalTransactions |-> OrElse(result.totalTransactions, 0),
     totalRevenue |-> OrElse(result.totalRevenue, 0),
     totalCommission |-> OrElse(result.totalCommission, 0),
     averagePrice |-> AvgOrZero(result.averagePrice),
     minPrice |-> OrElse(result.minPrice, 0),
     maxPrice |-> OrElse(result.maxPrice, 0),
     netRevenue |-> OrElse(result.totalRevenue, 0) - OrElse(result.totalCommission, 0),
     monthlyBreakdown |-> monthly]

\* getTransactionStatistics starts: the first await Transaction.findAll
StFindAll ==
    /\ statPc = "idle"
    /\ statRes' = LET S == Selected(statIn)
                  IN  [totalTransactions |-> SqlCount(S),
                       totalRevenue |-> SqlSum(S, "salePrice"),
                       totalCommission |-> SqlSum(S, "commissionAmount"),
                       averagePrice |-> SqlAvg(S, "salePrice"),
                       minPrice |-> SqlMin(S, "salePrice"),
                       maxPrice |-> SqlMax(S, "salePrice")]
    /\ statPc' = "st_monthly"
    /\ UNCHANGED <<store, envRate, callVars, adminVars, resp, calcVars, statIn, statOut, http, moreVars>>

\* the second await Transaction.findAll, then the return
StMonthly ==
    /\ statPc = "st_monthly"
    /\ statOut' = Statistics(statRes, MonthlyBreakdown(Selected(statIn)))
    /\ statPc' = "done"
    /\ UNCHANGED <<store, envRate, callVars, adminVars, resp, calcVars, statIn, statRes, http, moreVars>>

\* ---------------------------- getAllTransactions, getTransactionsByUser
\* the limits the clients ask for
PageSizes == {1, 2}

\* Math.ceil(count / limit)
Ceil(count, limit) == (count + limit - 1) \div limit

NoListIn == [op |-> None, userId |-> NoNum, limit |-> NoNum, sortOrder |-> None,
             startDate |-> NoNum, endDate |-> NoNum]

NoRead == [op |-> None, status |-> None, error |-> None, id |-> NoNum, rows |-> <<>>]

InitList ==
    /\ listPc = "idle"
    /\ listIn = NoListIn
    /\ listOut = <<>>
    /\ readOut = NoRead

\* order: [[sortField, sortOrder]]: the orders of the rows S that ORDER BY
\* transactionDate allows; rows of one date come in an order the database
\* picks
Ordered(S, sortOrder) ==
    { ord \in [1..Cardinality(S) -> S] :
        \A i, j \in 1..Cardinality(S) :
            i < j =>
              /\ ord[i] # ord[j]
              /\ IF sortOrder = "DESC"
                 THEN transactions[ord[i]].transactionDate >= transactions[ord[j]].transactionDate
                 ELSE transactions[ord[i]].transactionDate <= transactions[ord[j]].transactionDate }

\* limit and offset applied to the ordered rows
LimitOffset(ord, limit, offset) ==
    LET last == IF offset + limit < Len(ord) THEN offset + limit ELSE Len(ord)
    IN  IF offset >= Len(ord) THEN <<>> ELSE SubSeq(ord, offset + 1, last)

\* the where clause built from the options: buyerName, sellerName, dates,
\* prices; createdBy is not among the options read
ListWhere(options) == Selected(options)

\* what getAllTransactions returns
ListResult(page, limit, count, rows) ==
    [status |-> "ok", error |-> None, transactions |-> rows,
     currentPage |-> page,
     totalPages |-> Ceil(count, limit),
     totalItems |-> count,
     itemsPerPage |-> limit,
     hasNextPage |-> page < Ceil(count, limit),
     hasPrevPage |-> page > 1]

ListError(page, msg) ==
    [status |-> "error", error |-> msg, transactions |-> <<>>,
     currentPage |-> page, totalPages |-> NoNum, totalItems |-> NoNum,
     itemsPerPage |-> NoNum, hasNextPage |-> FALSE, hasPrevPage |-> FALSE]

\* getTransactionsByUser starts: await User.findByPk(userId)
GtuFindUser ==
    /\ listPc = "gtu_findUser"
    /\ Len(listOut) < MaxPage
    /\ IF listIn.userId \notin users
       THEN /\ listOut' = Append(listOut, ListError(Len(listOut) + 1, ErrUserNotFound))
            /\ UNCHANGED listPc
       ELSE /\ listPc' = "ga_query"
            /\ UNCHANGED listOut
    /\ UNCHANGED <<store, envRate, callVars, adminVars, resp, calcVars, statVars, http, listIn, readOut,
                   authVars, webVars>>

\* getAllTransactions: await Transaction.findAndCountAll(...) and the return.
\* The client asks for the pages in turn.
GaFindAndCountAll ==
    /\ listPc = "ga_query"
    /\ Len(listOut) < MaxPage
    /\ LET page == Len(listOut) + 1
           limit == listIn.limit
           offset == (page - 1) * limit
           found == ListWhere(listIn)
       IN  \E ord \in Ordered(found, listIn.sortOrder) :
             listOut' = Append(listOut, ListResult(page, limit, Cardinality(found),
                                                   LimitOffset(ord, limit, offset)))
    /\ listPc' = IF listIn.op = "getTransactionsByUser" THEN "gtu_findUser" ELSE "ga_query"
    /\ UNCHANGED <<store, envRate, callVars, adminVars, resp, calcVars, statVars, http, listIn, readOut,
                   authVars, webVars>>

\* ------------------------- getTransactionById, getRecentTransactions
\* getTransactionById(transactionId): await Transaction.findByPk, throw or
\* return the row
GetById ==
    /\ \E id \in 1..(MaxRows + 1) :
         readOut' = IF id \in 1..Len(transactions)
                    THEN [op |-> "getTransactionById", status |-> "ok", error |-> None,
                          id |-> id, rows |-> <<id>>]
                    ELSE [op |-> "getTransactionById", status |-> "error",
                          error |-> ErrTxNotFound, id |-> id, rows |-> <<>>]
    /\ UNCHANGED <<store, envRate, callVars, adminVars, resp, calcVars, statVars, http, listVars,
                   authVars, webVars>>

\* getRecentTransactions(limit): await Transaction.findAll ordered by
\* createdAt DESC, the latest rows first
GetRecent ==
    /\ \E limit \in PageSizes :
         LET n == Len(transactions)
             k == IF limit < n THEN limit ELSE n
         IN  readOut' = [op |-> "getRecentTransactions", status |-> "ok", error |-> None,
                         id |-> limit, rows |-> [j \in 1..k |-> n + 1 - j]]
    /\ UNCHANGED <<store, envRate, callVars, adminVars, resp, calcVars, statVars, http, listVars,
                   authVars, webVars>>

\* no request is in flight and no response is on its way
Quiet ==
    /\ \A c \in Calls : pc[c] \in {"idle", "done", "failed"}
    /\ \A a \in Admins : apc[a] = "idle"
    /\ resp = NoResp

\* ------------------------------------------------ AuthService.register
Roles == {"ADMIN", "STAFF", "AUDITOR"}

ToLowerChar(ch) ==
    CASE ch = "A" -> "a"
      [] ch = "B" -> "b"
      [] OTHER -> ch

ToLowerCase(s) == [i \in 1..Len(s) |-> ToLowerChar(s[i])]

\* the email that register looks up: userData.email as it came
LookupEmail(email) == email

\* userData.email.toLowerCase().trim(), the email that is stored
StoredEmail(email) == Trim(ToLowerCase(email))

\* User.findByEmail(email): findOne({ where: { email } })
findByEmail(email) == {u \in users : emails[u] = email}

\* the email a user of the initial tables has
SeedEmail(u) == IF u = 1 THEN <<"a">> ELSE <<"b", "1">>

NoRegIn == [email |-> <<>>, role |-> None]
NoRegOut == [status |-> None, error |-> None, id |-> NoNum]

InitAuth ==
    /\ emails = [u \in users |-> SeedEmail(u)]
    /\ regPc = "idle"
    /\ regIn = NoRegIn
    /\ regOut = NoRegOut

RegEmails == {<<"a">>, <<"A">>, <<" ", "a">>, <<"b">>, <<"B", " ">>, <<"c">>, <<"C">>}

RegInputs == [email : RegEmails, role : Roles \cup {"OWNER"}]

regFrame == <<plots, transactions, envRate, callVars, adminVars, resp, calcVars,
              statVars, http, listVars, readOut, webVars>>

\* register starts: await User.findByEmail(userData.email), then the role
RgFindByEmail ==
    /\ regPc = "idle"
    /\ Cardinality(users) < MaxUsers
    /\ \E userData \in RegInputs :
         /\ regIn' = userData
         /\ IF findByEmail(LookupEmail(userData.email)) # {}
            THEN /\ regOut' = [status |-> "error", error |-> ErrEmailExists, id |-> NoNum]
                 /\ regPc' = "idle"
            ELSE IF userData.role \notin Roles
            THEN /\ regOut' = [status |-> "error", error |-> ErrInvalidRole, id |-> NoNum]
                 /\ regPc' = "idle"
            ELSE /\ regOut' = NoRegOut
                 /\ regPc' = "rg_create"
    /\ UNCHANGED <<users, emails, regFrame>>

\* await User.create({ email: userData.email.toLowerCase().trim(), ... }):
\* the column email is unique
RgCreate ==
    /\ regPc = "rg_create"
    /\ LET email == StoredEmail(regIn.email)
           id == Cardinality(users) + 1
       IN  IF \E u \in users : emails[u] = email
           THEN /\ regOut' = [status |-> "error", error |-> ErrUnique, id |-> NoNum]
                /\ UNCHANGED <<users, emails>>
           ELSE /\ users' = users \cup {id}
                /\ emails' = [u \in users \cup {id} |-> IF u = id THEN email ELSE emails[u]]
                /\ regOut' = [status |-> "ok", error |-> None, id |-> id]
    /\ regPc' = "idle"
    /\ UNCHANGED <<regIn, regFrame>>

\* ------------------------------------------------------------ routes

WriteRoutes == {"POST /transactions", "POST /lands", "PUT /lands/:id",
                "PATCH /lands/:id/mark-sold"}

NoHttp == [role |-> None, route |-> None, stage |-> "idle"]

\* requireRole(...allowedRoles) on req.user.role
requireRole(allowedRoles, role) == role \in allowedRoles

requireAdminOrStaff(role) == requireRole({"ADMIN", "STAFF"}, role)

\* the middleware of a route after authenticateToken: the lands router puts
\* requireAdminOrStaff on its writing routes, the transactions router nothing
RouteAllows(route, role) ==
    IF route = "POST /transactions" THEN TRUE ELSE requireAdminOrStaff(role)

\* a request arrives: authenticateToken (401 without a valid token), then
\* the middleware of the route (403), then the controller
HttpReceive ==
    /\ http.stage = "idle"
    /\ Quiet
    /\ \E token \in Roles \cup {None}, route \in WriteRoutes :
         /\ route = "POST /transactions" => \E c \in Calls : pc[c] = "idle"
         /\ http' = [role |-> token, route |-> route,
                     stage |-> IF token = None THEN "401"
                               ELSE IF ~RouteAllows(route, token) THEN "403"
                               ELSE "controller"]
    /\ UNCHANGED <<store, envRate, callVars, adminVars, resp, calcVars, statVars, moreVars>>

\* the controller calls the service of its route
HttpService(route) ==
    /\ http.stage = "controller"
    /\ http.route = route
    /\ Quiet

\* res.status(...).json(...): the request is answered
HttpSend ==
    /\ \/ http.stage \in {"401", "403"} /\ resp = NoResp
       \/ http.stage = "controller" /\ resp # NoResp
    /\ http' = NoHttp
    /\ resp' = NoResp
    /\ UNCHANGED <<store, envRate, callVars, adminVars, calcVars, statVars, moreVars>>

\* ------------------------- TransactionController.recordTransaction
\* the words of a message
Words(msg) ==
    CASE msg = ErrPlotNotFound -> <<"Land", "plot", "not", "found">>
      [] msg = ErrAlreadySold -> <<"Land", "plot", "is", "already", "sold">>
      [] msg = ErrDisputed -> <<"Cannot", "sell", "disputed", "land", "plot">>
      [] msg = ErrUserNotFound -> <<"User", "not", "found">>
      [] msg = ErrValidation -> <<"Validation", "failed">>
      [] msg = ErrMarkedSold -> <<"Land", "plot", "is", "already", "marked", "as", "sold">>
      [] OTHER -> <<msg>>

\* String.prototype.includes, on whole words
Includes(msg, needle) ==
    \E i \in 0..(Len(Words(msg)) - Len(needle)) :
        SubSeq(Words(msg), i + 1, i + Len(needle)) = needle

ErrMissingFields == "Missing required fields"
ErrPricePositive == "Sale price must be greater than 0"
ErrRecordFailed == "Failed to record transaction"

NoReply == [status |-> NoNum, code |-> None, message |-> None, tx |-> 0]

\* the catch block of the controller: the message decides the answer
Catch(error) ==
    IF \/ Includes(error, <<"not", "found">>)
       \/ Includes(error, <<"already", "sold">>)
       \/ Includes(error, <<"disputed">>)
    THEN [status |-> 400, code |-> "BUSINESS_LOGIC_ERROR", message |-> error, tx |-> 0]
    ELSE IF Includes(error, <<"Validation", "failed">>)
    THEN [status |-> 400, code |-> "VALIDATION_ERROR", message |-> error, tx |-> 0]
    ELSE [status |-> 500, code |-> "INTERNAL_SERVER_ERROR", message |-> ErrRecordFailed, tx |-> 0]

\* salePrice values of request bodies: absent, zero, negative, positive
BodyPrices == {NoNum, 0, -5, 333}

\* the checks of the body before the service is called: a required field is
\* missing (0 is falsy), or parseFloat(salePrice) <= 0
RcValidate ==
    /\ resp = NoResp
    /\ \E salePrice \in BodyPrices :
         /\ salePrice = NoNum \/ salePrice <= 0
         /\ reply' = [status |-> 400, code |-> "VALIDATION_ERROR",
                      message |-> IF salePrice = NoNum \/ salePrice = 0
                                  THEN ErrMissingFields ELSE ErrPricePositive,
                      tx |-> 0]
    /\ UNCHANGED <<store, envRate, callVars, adminVars, resp, calcVars, statVars, http,
                   listVars, readOut, authVars, mwLog, rateVars>>

\* the service returned or threw: res.status(201) or the catch block
RcRespond ==
    /\ resp.op = "recordTransaction"
    /\ reply' = IF resp.status = "ok"
                THEN [status |-> 201, code |-> None, message |-> None, tx |-> resp.tx]
                ELSE Catch(resp.error)
    /\ resp' = NoResp
    /\ UNCHANGED <<store, envRate, callVars, adminVars, calcVars, statVars, http,
                   listVars, readOut, authVars, mwLog, rateVars>>

\* ----------------------------------------------------- requireRole
\* the middleware the module exports, and requireRole(...) itself
RoleMiddlewares == {"requireAdmin", "requireAdminOrStaff", "requireAuth",
                    "requireAuditorOrAdmin", "requireRole"}

\* the allowedRoles each one was built with
AllowedRoles(m) ==
    CASE m = "requireAdmin" -> {{"ADMIN"}}
      [] m = "requireAdminOrStaff" -> {{"ADMIN", "STAFF"}}
      [] m = "requireAuth" -> {{"ADMIN", "STAFF", "AUDITOR"}}
      [] m = "requireAuditorOrAdmin" -> {{"ADMIN", "AUDITOR"}}
      [] OTHER -> SUBSET Roles

\* a middleware that lets every authenticated user pass
RequireRoleAnyAuthenticated(allowedRoles, user) ==
    IF user = None
    THEN [next |-> FALSE, status |-> 401, code |-> "NOT_AUTHENTICATED"]
    ELSE [next |-> TRUE, status |-> NoNum, code |-> None]

\* (req, res, next) => ...: user is req.user.role, None without req.user
RequireRole(allowedRoles, user) ==
    IF user = None
    THEN [next |-> FALSE, status |-> 401, code |-> "NOT_AUTHENTICATED"]
    ELSE IF ~requireRole(allowedRoles, user)
    THEN [next |-> FALSE, status |-> 403, code |-> "INSUFFICIENT_PERMISSIONS"]
    ELSE [next |-> TRUE, status |-> NoNum, code |-> None]

\* a request reaches one of the middleware
RrCall ==
    /\ Len(mwLog) < MaxLog
    /\ \E m \in RoleMiddlewares, user \in Roles \cup {None} :
         \E allowedRoles \in AllowedRoles(m) :
           mwLog' = Append(mwLog, [mw |-> m, allowedRoles |-> allowedRoles, user |-> user,
                                   out |-> RequireRole(allowedRoles, user)])
    /\ UNCHANGED <<store, envRate, callVars, adminVars, resp, calcVars, statVars, http,
                   listVars, readOut, authVars, reply, rateVars>>

\* ------------------------------------------------------- rateLimit
\* req.ip of the clients
Clients == {1, 2}

\* rateLimit(maxRequests, windowMs): the arguments the middleware is built with
RlMaxRequests == 2
RlWindowMs == 2

\* a filter that keeps the timestamp at windowStart too
FilterFromWindowStart(timestamps, windowStart) ==
    SelectSeq(timestamps, LAMBDA time : time >= windowStart)

\* timestamps.filter(time => time > windowStart)
Filter(timestamps, windowStart) ==
    SelectSeq(timestamps, LAMBDA time : time > windowStart)

\* "Clean old entries": every client's list is filtered, empty lists are deleted
CleanOld(map, windowStart) ==
    [id \in {i \in DOMAIN map : Filter(map[i], windowStart) # <<>>} |->
        Filter(map[id], windowStart)]

\* a request of a client reaches the middleware at Date.now() = now
RlRequest ==
    /\ Len(rlLog) < MaxHits
    /\ \E clientId \in Clients, now \in clock..MaxTime :
         LET windowStart == now - RlWindowMs
             cleaned == CleanOld(requests, windowStart)
             clientRequests == IF clientId \in DOMAIN cleaned THEN cleaned[clientId] ELSE <<>>
             validRequests == Filter(clientRequests, windowStart)
         IN  /\ clock' = now
             /\ IF Len(validRequests) >= RlMaxRequests
                THEN /\ requests' = cleaned
                     /\ rlLog' = Append(rlLog, [clientId |-> clientId, now |-> now,
                                                next |-> FALSE, status |-> 429,
                                                code |-> "RATE_LIMIT_EXCEEDED"])
                ELSE /\ requests' = [id \in DOMAIN cleaned \cup {clientId} |->
                                        IF id = clientId THEN Append(validRequests, now)
                                        ELSE cleaned[id]]
                     /\ rlLog' = Append(rlLog, [clientId |-> clientId, now |-> now,
                                                next |-> TRUE, status |-> NoNum,
                                                code |-> None])
    /\ UNCHANGED <<store, envRate, callVars, adminVars, resp, calcVars, statVars, http,
                   listVars, readOut, authVars, reply, mwLog>>

InitMore ==
    /\ InitAuth
    /\ reply = NoReply
    /\ mwLog = <<>>
    /\ clock = 0
    /\ requests = [id \in {} |-> <<>>]
    /\ rlLog = <<>>


\* --------------------------------------------------- specifications
InitStore ==
    /\ plots = [p \in PlotIds |-> NoPlot]
    /\ users = {1}
    /\ transactions = <<>>

InitRequests ==
    /\ pc = [c \in Calls |-> "idle"]
    /\ args = [c \in Calls |-> NoArgs]
    /\ loc = [c \in Calls |-> NoLoc]
    /\ apc = [a \in Admins |-> "idle"]
    /\ aargs = [a \in Admins |-> NoAArgs]
    /\ aloc = [a \in Admins |-> NoALoc]
    /\ resp = NoResp
    /\ http = NoHttp
    /\ InitList
    /\ InitMore

Init ==
    /\ InitStore
    /\ InitRequests
    /\ envRate = NoNum
    /\ calcIn = NoCalcIn
    /\ calcOut = NoCalc
    /\ InitStatRequest

\* requests run in parallel, interleaved at their awaits
Next ==
    \/ \E c \in Calls : RtFindPlot(c, SmallInputs, FALSE)
    \/ \E c \in Calls : RtFindUser(c, FALSE)
    \/ \E c \in Calls : RtCreate(c, FALSE)
    \/ \E c \in Calls : MsFind(c, FALSE)
    \/ \E c \in Calls : MsUpdate(c)
    \/ \E c \in Calls : RtRefetch(c, FALSE)
    \/ \E a \in Admins : ClFindOne(a, {<<"G", "1">>, <<"G", "2">>}, {None, "SOLD", "DISPUTED"}, FALSE)
    \/ \E a \in Admins : ClCreate(a, FALSE)
    \/ \E a \in Admins : UlFind(a, {<<>>}, Statuses \cup {None}, FALSE)
    \/ \E a \in Admins : UlUpdate(a, FALSE)
    \/ \E a \in Admins : MkFind(a, FALSE)
    \/ \E a \in Admins : MkUpdate(a, FALSE)

Spec == Init /\ [][Next]_vars

\* ---- requests run one at a time
\* calls take the slots in order
FirstIdle(c) == pc[c] = "idle" /\ \A d \in Calls : d < c => pc[d] # "idle"

FirstAdmin(a) == \A b \in Admins : a <= b

AllPatches ==
    { {},
      {"salePrice", "buyerName"},
      {"buyerContact", "receiptPath", "salePrice", "buyerName", "createdBy"} }

InitSeq ==
    /\ InitStore
    /\ InitRequests
    /\ envRate \in EnvRates
    /\ calcIn = NoCalcIn
    /\ calcOut = NoCalc
    /\ InitStatRequest

NextSeq ==
    \/ \E c \in Calls : Quiet /\ FirstIdle(c) /\ RtFindPlot(c, RichInputs, TRUE)
    \/ \E c \in Calls : RtFindUser(c, TRUE)
    \/ \E c \in Calls : RtCreate(c, TRUE)
    \/ \E c \in Calls : MsFind(c, TRUE)
    \/ \E c \in Calls : MsUpdate(c)
    \/ \E c \in Calls : RtRefetch(c, TRUE)
    \/ \E a \in Admins : Quiet /\ FirstAdmin(a) /\ ClFindOne(a, RawPlotNumbers, {None, "SOLD", "DISPUTED"}, TRUE)
    \/ \E a \in Admins : ClCreate(a, TRUE)
    \/ \E a \in Admins : Quiet /\ FirstAdmin(a) /\ UlFind(a, {<<>>, <<"g", "1", " ">>}, Statuses \cup {None}, TRUE)
    \/ \E a \in Admins : UlFindOne(a, TRUE)
    \/ \E a \in Admins : UlUpdate(a, TRUE)
    \/ \E a \in Admins : Quiet /\ FirstAdmin(a) /\ MkFind(a, TRUE)
    \/ \E a \in Admins : MkUpdate(a, TRUE)
    \/ \E a \in Admins : Quiet /\ FirstAdmin(a) /\ UtFind(a, AllPatches, TRUE)
    \/ \E a \in Admins : UtUpdate(a, TRUE)
    \/ Deliver

SpecSeq == InitSeq /\ [][NextSeq]_vars

\* ---- two calls race for one AVAILABLE plot
\* the plot they race for: the first one
RacePlot == CHOOSE p \in PlotIds : \A q \in PlotIds : p <= q

RaceInputs ==
    { [landPlotId |-> RacePlot, createdBy |-> 1, salePrice |-> s,
       commissionRate |-> r, commissionAmount |-> NoNum] :
        s \in {333, 50000}, r \in {NoNum, 1500} }

InitRace ==
    /\ plots = [p \in PlotIds |->
                  IF p = RacePlot
                  THEN [exists |-> TRUE, plotNumber |-> <<"G", "1">>, status |-> "AVAILABLE"]
                  ELSE NoPlot]
    /\ users = {1}
    /\ transactions = <<>>
    /\ InitRequests
    /\ envRate = NoNum
    /\ calcIn = NoCalcIn
    /\ calcOut = NoCalc
    /\ InitStatRequest

NextRace ==
    \/ \E c \in Calls : RtFindPlot(c, RaceInputs, FALSE)
    \/ \E c \in Calls : RtFindUser(c, FALSE)
    \/ \E c \in Calls : RtCreate(c, FALSE)
    \/ \E c \in Calls : MsFind(c, FALSE)
    \/ \E c \in Calls : MsUpdate(c)
    \/ \E c \in Calls : RtRefetch(c, FALSE)

SpecRace == InitRace /\ [][NextRace]_vars

\* ---- calculateCommission over its arguments
InitCalc ==
    /\ InitStore
    /\ InitRequests
    /\ envRate \in EnvRates
    /\ calcIn \in [salePrice : CalcPrices, commissionRate : CalcRates]
    /\ calcOut = NoCalc
    /\ InitStatRequest

NextCalc ==
    \/ Calc
    \/ CalcService

SpecCalc == InitCalc /\ [][NextCalc]_vars

\* ---- getTransactionStatistics over tables that recordTransaction can leave
StatPrices == {100, 333}
Days == 1..MaxDay

\* the rows recorded with a price and a date of the caller's
RecordedRows ==
    { BeforeValidate([NewTransaction([landPlotId |-> 1, salePrice |-> s], 1, 1500)
                        EXCEPT !.transactionDate = d]) :
        s \in StatPrices, d \in Days }

Tables == UNION { [1..n -> RecordedRows] : n \in 0..MaxRows }

InitStats ==
    /\ plots = [p \in PlotIds |->
                  IF p = 1
                  THEN [exists |-> TRUE, plotNumber |-> <<"G", "1">>, status |-> "SOLD"]
                  ELSE NoPlot]
    /\ users = {1}
    /\ transactions \in Tables
    /\ InitRequests
    /\ envRate = NoNum
    /\ calcIn = NoCalcIn
    /\ calcOut = NoCalc
    /\ statPc = "idle"
    /\ statIn \in [startDate : Days \cup {NoNum}, endDate : Days \cup {NoNum}]
    /\ statRes = NoStatRes
    /\ statOut = NoStats

NextStats ==
    \/ StFindAll
    \/ StMonthly

SpecStats == InitStats /\ [][NextStats]_vars

\* ---- requests through the routers, one at a time, with a role each
\* createdBy is req.user.id, the user authenticateToken loaded
HttpInputs == {in \in SmallInputs : in.createdBy = 1}

NextHttp ==
    \/ HttpReceive
    \/ \E c \in Calls : HttpService("POST /transactions") /\ FirstIdle(c)
                           /\ RtFindPlot(c, HttpInputs, TRUE)
    \/ \E c \in Calls : RtFindUser(c, TRUE)
    \/ \E c \in Calls : RtCreate(c, TRUE)
    \/ \E c \in Calls : MsFind(c, TRUE)
    \/ \E c \in Calls : MsUpdate(c)
    \/ \E c \in Calls : RtRefetch(c, TRUE)
    \/ \E a \in Admins : HttpService("POST /lands") /\ FirstAdmin(a)
                           /\ ClFindOne(a, {<<"G", "1">>, <<"g", "1", " ">>}, {None, "DISPUTED"}, TRUE)
    \/ \E a \in Admins : ClCreate(a, TRUE)
    \/ \E a \in Admins : HttpService("PUT /lands/:id") /\ FirstAdmin(a)
                           /\ UlFind(a, {<<>>, <<"G", "2">>}, {None, "RESERVED"}, TRUE)
    \/ \E a \in Admins : UlFindOne(a, TRUE)
    \/ \E a \in Admins : UlUpdate(a, TRUE)
    \/ \E a \in Admins : HttpService("PATCH /lands/:id/mark-sold") /\ FirstAdmin(a)
                           /\ MkFind(a, TRUE)
    \/ \E a \in Admins : MkUpdate(a, TRUE)
    \/ HttpSend

SpecHttp == Init /\ [][NextHttp]_vars

\* ---- a client pages through getAllTransactions / getTransactionsByUser
\* rows recorded by two users on two days
PagedRows ==
    { BeforeValidate([NewTransaction([landPlotId |-> 1, salePrice |-> 333], u, 1500)
                        EXCEPT !.transactionDate = d]) :
        u \in {1, 2}, d \in {Today - 1, Today} }

PagedTables == UNION { [1..n -> PagedRows] : n \in 0..MaxRows }

ListInputs ==
    { [op |-> "getAllTransactions", userId |-> NoNum, limit |-> n, sortOrder |-> o,
       startDate |-> d, endDate |-> NoNum] :
        n \in PageSizes, o \in {"ASC", "DESC"}, d \in {NoNum, Today} }
    \cup
    { [op |-> "getTransactionsByUser", userId |-> u, limit |-> n, sortOrder |-> "DESC",
       startDate |-> NoNum, endDate |-> NoNum] :
        n \in PageSizes, u \in {1, 2, 3} }

InitPage ==
    /\ plots = [p \in PlotIds |->
                  IF p = 1
                  THEN [exists |-> TRUE, plotNumber |-> <<"G", "1">>, status |-> "SOLD"]
                  ELSE NoPlot]
    /\ users = {1, 2}
    /\ transactions \in PagedTables
    /\ pc = [c \in Calls |-> "idle"]
    /\ args = [c \in Calls |-> NoArgs]
    /\ loc = [c \in Calls |-> NoLoc]
    /\ apc = [a \in Admins |-> "idle"]
    /\ aargs = [a \in Admins |-> NoAArgs]
    /\ aloc = [a \in Admins |-> NoALoc]
    /\ resp = NoResp
    /\ http = NoHttp
    /\ envRate = NoNum
    /\ calcIn = NoCalcIn
    /\ calcOut = NoCalc
    /\ InitStatRequest
    /\ listIn \in ListInputs
    /\ listPc = IF listIn.op = "getTransactionsByUser" THEN "gtu_findUser" ELSE "ga_query"
    /\ listOut = <<>>
    /\ readOut = NoRead
    /\ InitMore

NextPage ==
    \/ GtuFindUser
    \/ GaFindAndCountAll

SpecPage == InitPage /\ [][NextPage]_vars

\* ---- the operations that only read, over a table
ReadTables == UNION { [1..n -> PagedRows] : n \in 0..MaxCalls }

InitRead ==
    /\ plots = [p \in PlotIds |->
                  IF p = 1
                  THEN [exists |-> TRUE, plotNumber |-> <<"G", "1">>, status |-> "SOLD"]
                  ELSE NoPlot]
    /\ users = {1, 2}
    /\ transactions \in ReadTables
    /\ pc = [c \in Calls |-> "idle"]
    /\ args = [c \in Calls |-> NoArgs]
    /\ loc = [c \in Calls |-> NoLoc]
    /\ apc = [a \in Admins |-> "idle"]
    /\ aargs = [a \in Admins |-> NoAArgs]
    /\ aloc = [a \in Admins |-> NoALoc]
    /\ resp = NoResp
    /\ http = NoHttp
    /\ envRate = NoNum
    /\ calcIn \in [salePrice : {333, 0 - 1000}, commissionRate : {NoNum}]
    /\ calcOut = NoCalc
    /\ statPc = "idle"
    /\ statIn \in [startDate : {NoNum, Today}, endDate : {NoNum}]
    /\ statRes = NoStatRes
    /\ statOut = NoStats
    /\ listIn \in {in \in ListInputs : in.limit = 1 /\ in.sortOrder = "DESC"
                                        /\ in.startDate = NoNum /\ in.userId \in {NoNum, 3}}
    /\ listPc = IF listIn.op = "getTransactionsByUser" THEN "gtu_findUser" ELSE "ga_query"
    /\ listOut = <<>>
    /\ readOut = NoRead
    /\ InitMore

NextRead ==
    \/ StFindAll
    \/ StMonthly
    \/ GaFindAndCountAll
    \/ GtuFindUser
    \/ GetById
    \/ GetRecent
    \/ CalcService

SpecRead == InitRead /\ [][NextRead]_vars

\* ---- AuthService.register, one call at a time
InitRegister ==
    /\ InitStore
    /\ InitRequests
    /\ envRate = NoNum
    /\ calcIn = NoCalcIn
    /\ calcOut = NoCalc
    /\ InitStatRequest

NextRegister ==
    \/ RgFindByEmail
    \/ RgCreate

SpecRegister == InitRegister /\ [][NextRegister]_vars

\* ---- POST /transactions: requests in parallel, each answered by the
\* controller as soon as its service call returns or throws
InitPost ==
    /\ plots = [p \in PlotIds |->
                  IF p = RacePlot
                  THEN [exists |-> TRUE, plotNumber |-> <<"G", "1">>, status |-> "AVAILABLE"]
                  ELSE [exists |-> TRUE, plotNumber |-> <<"G", "2">>, status |-> "DISPUTED"]]
    /\ users = {1}
    /\ transactions = <<>>
    /\ InitRequests
    /\ envRate = NoNum
    /\ calcIn = NoCalcIn
    /\ calcOut = NoCalc
    /\ InitStatRequest

NextPost ==
    \/ RcValidate
    \/ \E c \in Calls : resp = NoResp /\ RtFindPlot(c, SmallInputs, TRUE)
    \/ \E c \in Calls : resp = NoResp /\ RtFindUser(c, TRUE)
    \/ \E c \in Calls : resp = NoResp /\ RtCreate(c, TRUE)
    \/ \E c \in Calls : resp = NoResp /\ MsFind(c, TRUE)
    \/ \E c \in Calls : resp = NoResp /\ MsUpdate(c)
    \/ \E c \in Calls : resp = NoResp /\ RtRefetch(c, TRUE)
    \/ RcRespond

SpecPost == InitPost /\ [][NextPost]_vars


\* ---- requests at the role middleware
NextRole ==
    \/ RrCall

SpecRole == Init /\ [][NextRole]_vars

\* ---- requests at the rate limiter
NextRate ==
    \/ RlRequest

SpecRate == Init /\ [][NextRate]_vars

\* ------------------------------------------------------------ claims
\* the kinds of failure the claims speak of, by the message thrown
ErrorKind(msg) ==
    CASE msg \in {ErrPlotNotFound, ErrUserNotFound, ErrTxNotFound} -> "NotFound"
      [] msg \in {ErrAlreadySold, ErrDisputed, ErrMarkedSold} -> "InvalidState"
      [] msg \in {ErrValidation, ErrNoFields} -> "InvalidInput"
      [] msg \in {ErrPlotExists, ErrUnique} -> "Conflict"
      [] OTHER -> "Other"

\* no land or update request is in flight: a response in the next state is
\* that of a request that ends at its first check
AdminsIdle == \A b \in Admins : apc[b] = "idle"

\* every call has returned or thrown
AllFinished == \A c \in Calls : pc[c] \in {"done", "failed"}

\* call c throws in this step
Throws(c) == pc[c] # "failed" /\ pc'[c] = "failed"

\* call c starts in this step
Starts(c) == pc[c] = "idle" /\ pc'[c] # "idle"

\* C1: of the recordTransaction calls that race for one AVAILABLE plot
\* exactly one returns, and exactly one Transaction row references the plot
\* once all of them have finished.
C1_ExactlyOneSale ==
    AllFinished =>
        /\ Cardinality({c \in Calls : pc[c] = "done"}) = 1
        /\ Cardinality(TxOfPlot(RacePlot)) = 1

\* C2: when a recordTransaction call throws, no row that the call wrote is
\* left in the transactions table.
C2_NoRowLeftOnError ==
    [][\A c \in Calls :
         Throws(c) => loc[c].tx \notin 1..Len(transactions')]_vars

\* C5: with updateLandPlot requests running in between, a recordTransaction
\* call never inserts its row while the plot is SOLD or DISPUTED.
C5_NoInsertWhileSoldOrDisputed ==
    [][\A c \in Calls :
         (pc[c] = "rt_create" /\ Len(transactions') = Len(transactions) + 1)
           => plots[args[c].landPlotId].status \notin {"SOLD", "DISPUTED"}]_vars

\* C3: when a recordTransaction call returns, the plot it names is SOLD, the
\* transactions table has exactly one row more than when the call started,
\* that row references the plot, and the returned Transaction carries the
\* plot with status SOLD.
C3_SuccessPostcondition ==
    [][\A c \in Calls :
         (pc[c] # "done" /\ pc'[c] = "done") =>
            LET p == args[c].landPlotId
            IN  /\ plots'[p].status = "SOLD"
                /\ Len(transactions') = loc[c].len0 + 1
                /\ SubSeq(transactions', 1, loc[c].len0) =
                     SubSeq(transactions, 1, loc[c].len0)
                /\ transactions'[Len(transactions')].landPlotId = p
                /\ resp'.status = "ok"
                /\ resp'.tx = Len(transactions')
                /\ resp'.id = p
                /\ resp'.plotStatus = "SOLD"]_vars

\* a call returned the row of a plot that is now SOLD
C3_Witness ==
    /\ resp.op = "recordTransaction"
    /\ resp.status = "ok"
    /\ resp.plotStatus = "SOLD"
    /\ transactions[resp.tx].landPlotId = resp.id
    /\ plots[resp.id].status = "SOLD"

\* the plot a starting call names
StartedPlot(c) == IF pc'[c] = "failed" THEN resp'.id ELSE args'[c].landPlotId

\* C4: a recordTransaction call that names an existing plot whose status is
\* SOLD or DISPUTED throws an InvalidState error, whatever its other inputs
\* are, and leaves plots, users and transactions as they were.
C4_SoldOrDisputedRejected ==
    [][\A c \in Calls :
         (/\ Starts(c)
          /\ FindPlot(StartedPlot(c)).exists
          /\ FindPlot(StartedPlot(c)).status \in {"SOLD", "DISPUTED"})
           => /\ pc'[c] = "failed"
              /\ ErrorKind(resp'.error) = "InvalidState"
              /\ resp'.error = IF FindPlot(StartedPlot(c)).status = "SOLD"
                               THEN ErrAlreadySold ELSE ErrDisputed
              /\ UNCHANGED store]_vars

\* a call was rejected because its plot is DISPUTED
C4_Witness ==
    /\ resp.op = "recordTransaction"
    /\ resp.error = ErrDisputed
    /\ FindPlot(resp.id).status = "DISPUTED"
    /\ \E c \in Calls : pc[c] = "failed"

\* C6 as stated: a plot whose status is SOLD keeps that status in every step.
C6_SoldIsTerminal ==
    [][\A p \in PlotIds :
         plots[p].status = "SOLD" => plots'[p].status = "SOLD"]_vars

\* C6, amended: the status of a SOLD plot changes only in the save of an
\* updateLandPlot request whose updateData carries a status, and then to that
\* status; recordTransaction, markAsSold, createLandPlot and
\* updateTransaction never change it.
C6_SoldLeftOnlyByStatusUpdate ==
    [][\A p \in PlotIds :
         (plots[p].status = "SOLD" /\ plots'[p].status # "SOLD") =>
            \E a \in Admins :
               /\ apc[a] = "ul_update"
               /\ apc'[a] = "idle"
               /\ aargs[a].id = p
               /\ aargs[a].status # None
               /\ aargs[a].status = plots'[p].status]_vars

\* a plot that a sale made SOLD, and that an updateLandPlot request then took
\* out of SOLD
C6_Witness ==
    /\ resp.op = "updateLandPlot"
    /\ resp.status = "ok"
    /\ FindPlot(resp.id).status \in {"AVAILABLE", "RESERVED", "DISPUTED"}
    /\ TxOfPlot(resp.id) # {}

\* C7 as stated: every plot whose status is SOLD is referenced by at least
\* one Transaction row.
C7_SoldHasTransaction ==
    \A p \in PlotIds : plots[p].status = "SOLD" => TxOfPlot(p) # {}

\* C7, amended: a plot's status becomes SOLD only in the save of markAsSold
\* (called by recordTransaction after its row was inserted, so that a row
\* references the plot, or called directly by PATCH mark-sold), in the save
\* of an updateLandPlot with status SOLD, or in a createLandPlot with status
\* SOLD.
C7_SoldOnlyByTheseOperations ==
    [][\A p \in PlotIds :
         (plots[p].status # "SOLD" /\ plots'[p].status = "SOLD") =>
            \/ \E c \in Calls :
                  /\ pc[c] = "ms_update" /\ pc'[c] = "rt_refetch"
                  /\ args[c].landPlotId = p
                  /\ loc[c].tx \in TxOfPlot(p)
            \/ \E a \in Admins :
                  /\ apc[a] = "mk_update" /\ apc'[a] = "idle"
                  /\ aargs[a].id = p
            \/ \E a \in Admins :
                  /\ apc[a] = "ul_update" /\ apc'[a] = "idle"
                  /\ aargs[a].id = p
                  /\ aargs[a].status = "SOLD"
            \/ \E a \in Admins :
                  /\ apc[a] = "cl_create" /\ apc'[a] = "idle"
                  /\ aargs[a].status = "SOLD"
                  /\ ~plots[p].exists]_vars

\* a plot that markAsSold made SOLD for a recordTransaction call, with the
\* row of the call, and a plot that is SOLD without any row
C7_Witness ==
    /\ \E c \in Calls :
          /\ pc[c] = "rt_refetch"
          /\ plots[args[c].landPlotId].status = "SOLD"
          /\ transactions[loc[c].tx].landPlotId = args[c].landPlotId
    /\ \E p \in PlotIds : plots[p].status = "SOLD" /\ TxOfPlot(p) = {}

\* n cents is scaled / RateScale cents rounded to the nearest cent
RoundsTo(n, scaled) ==
    /\ 2 * n * RateScale - RateScale <= 2 * scaled
    /\ 2 * scaled < 2 * n * RateScale + RateScale

ConfiguredRate == IF envRate = NoNum THEN DefaultCommissionRate ELSE envRate

\* the rate the caller asked for: the supplied one, else the configured one
EffectiveRate(supplied) == IF supplied = NoNum THEN ConfiguredRate ELSE supplied

\* C9: the row a recordTransaction call inserts carries the rate the caller
\* supplied whenever one in [0,1] is supplied, 0 included, and the configured
\* default only when none is supplied.
C9_SuppliedRatePersisted ==
    [][\A c \in Calls :
         (/\ pc[c] = "rt_create"
          /\ Len(transactions') = Len(transactions) + 1
          /\ args[c].commissionRate \in {NoNum} \cup (MinCommissionRate..MaxCommissionRate))
           => transactions'[Len(transactions')].commissionRate =
                 EffectiveRate(args[c].commissionRate)]_vars

\* C10: for a positive price and a rate in [0,1], calculateCommission returns
\* the supplied rate, the amount salePrice * rate rounded to two decimals
\* and the net amount salePrice - amount; with no rate it uses the default.
C10_CalculationUsesSuppliedRate ==
    (/\ calcOut # NoCalc
     /\ calcIn.salePrice > 0
     /\ calcIn.commissionRate \in {NoNum} \cup (MinCommissionRate..MaxCommissionRate))
      => /\ calcOut.commissionRate = EffectiveRate(calcIn.commissionRate)
         /\ RoundsTo(calcOut.commissionAmount,
                     calcIn.salePrice * EffectiveRate(calcIn.commissionRate))
         /\ calcOut.netAmount = calcIn.salePrice - calcOut.commissionAmount

\* C11: calculateCommission returns no breakdown for a salePrice that is 0
\* or negative.
C11_NoBreakdownForNonPositivePrice ==
    (calcIn # NoCalcIn /\ calcIn.salePrice <= 0) => calcOut = NoCalc

\* C12: markAsSold throws NotFound when no plot has the id and InvalidState
\* when the plot is SOLD, changing nothing; for a plot of any other status,
\* DISPUTED included, it passes the checks and its save sets the status of
\* that plot to SOLD and changes no other plot, no Transaction and no user.
C12_MarkAsSoldContract ==
    [][\A a \in Admins :
         /\ (AdminsIdle /\ resp'.op = "markAsSold") =>
               /\ resp'.status = "error"
               /\ UNCHANGED store
               /\ IF ~FindPlot(resp'.id).exists
                  THEN ErrorKind(resp'.error) = "NotFound"
                  ELSE /\ FindPlot(resp'.id).status = "SOLD"
                       /\ ErrorKind(resp'.error) = "InvalidState"
         /\ (apc[a] = "idle" /\ aargs'[a].op = "markAsSold") =>
               /\ FindPlot(aargs'[a].id).exists
               /\ FindPlot(aargs'[a].id).status \in Statuses \ {"SOLD"}
               /\ UNCHANGED store
         /\ (apc[a] = "mk_update" /\ apc'[a] # "mk_update") =>
               /\ resp'.op = "markAsSold"
               /\ resp'.status = "ok"
               /\ plots' = [plots EXCEPT ![aargs[a].id].status = "SOLD"]
               /\ UNCHANGED <<users, transactions>>]_vars

\* markAsSold returned for a plot that no Transaction references
C12_Witness ==
    /\ resp.op = "markAsSold"
    /\ resp.status = "ok"
    /\ FindPlot(resp.id).status = "SOLD"
    /\ TxOfPlot(resp.id) = {}

\* the fields of a Transaction that updateTransaction may write
Updatable == {"buyerContact", "sellerContact", "receiptPath"}

\* request a is an updateTransaction that takes a step
UpdatesTransaction(a) ==
    \/ AdminsIdle /\ resp'.op = "updateTransaction"
    \/ apc[a] = "idle" /\ aargs'[a].op = "updateTransaction"
    \/ apc[a] = "ut_update" /\ apc'[a] # "ut_update"

\* C13: whatever the patch, a step of updateTransaction leaves every plot
\* and every user as they were, adds and removes no Transaction, and changes
\* at most buyerContact, sellerContact and receiptPath of the Transaction it
\* names.
C13_UpdateTouchesOnlyWhitelist ==
    [][\A a \in Admins :
         UpdatesTransaction(a) =>
            /\ UNCHANGED <<plots, users>>
            /\ Len(transactions') = Len(transactions)
            /\ \A i \in 1..Len(transactions) :
                  \A k \in DOMAIN transactions[i] :
                     transactions'[i][k] # transactions[i][k] =>
                        /\ apc[a] = "ut_update"
                        /\ i = aargs[a].id
                        /\ k \in Updatable]_vars

\* an update whose patch also named salePrice, buyerName and createdBy has
\* written the contact and the receipt path of its row
C13_Witness ==
    /\ resp.op = "updateTransaction"
    /\ resp.status = "ok"
    /\ transactions[resp.id].buyerContact = "c1"
    /\ transactions[resp.id].receiptPath = "r1"
    /\ transactions[resp.id].salePrice = 333
    /\ transactions[resp.id].buyerName = "n0"

\* C14: updateTransaction throws NotFound when no Transaction has the id,
\* whatever the patch, and InvalidInput when the Transaction exists and the
\* patch names none of the three fields: it goes on to its save only for an
\* existing Transaction and a patch that names one of them.  The store is
\* unchanged in both failures.
C14_UpdateRejections ==
    [][\A a \in Admins :
         /\ (AdminsIdle /\ resp'.op = "updateTransaction") =>
               /\ resp'.status = "error"
               /\ UNCHANGED store
               /\ IF resp'.id \notin 1..Len(transactions)
                  THEN ErrorKind(resp'.error) = "NotFound"
                  ELSE ErrorKind(resp'.error) = "InvalidInput"
         /\ (apc[a] = "idle" /\ aargs'[a].op = "updateTransaction") =>
               /\ aargs'[a].id \in 1..Len(transactions)
               /\ aargs'[a].patch \cap Updatable # {}]_vars

\* a patch without any of the three fields was turned away for a
\* Transaction that exists
C14_Witness ==
    /\ resp.op = "updateTransaction"
    /\ resp.error = ErrNoFields
    /\ resp.id \in 1..Len(transactions)

\* the error a recordTransaction call owes at a failure before its insert:
\* plot not found, plot SOLD, plot DISPUTED, user not found, validation
ExpectedError(plot, userKnown) ==
    IF ~plot.exists THEN ErrPlotNotFound
    ELSE IF plot.status = "SOLD" THEN ErrAlreadySold
    ELSE IF plot.status = "DISPUTED" THEN ErrDisputed
    ELSE IF ~userKnown THEN ErrUserNotFound
    ELSE ErrValidation

\* C15: a recordTransaction call writes nothing in its steps before the
\* insert, and when it throws before the insert (plot not found, plot SOLD,
\* plot DISPUTED, user not found, in that order, or validation of the row)
\* plots, users and transactions are what they were when it started.
C15_EarlyFailuresWriteNothing ==
    [][\A c \in Calls :
         /\ (pc[c] \in {"idle", "rt_findUser"} /\ pc'[c] # pc[c]) => UNCHANGED store
         /\ (Throws(c) /\ loc[c].tx = 0) =>
               /\ UNCHANGED store
               /\ pc[c] # "idle" => Len(transactions') = loc[c].len0
               /\ pc[c] = "idle" =>
                     /\ resp'.error \in {ErrPlotNotFound, ErrAlreadySold, ErrDisputed}
                     /\ resp'.error = ExpectedError(FindPlot(resp'.id), TRUE)
               /\ pc[c] # "idle" =>
                     resp'.error = ExpectedError(FindPlot(resp'.id),
                                                 args[c].createdBy \in users)
               /\ resp'.error = ErrValidation =>
                     \/ args[c].salePrice < MinSalePrice
                     \/ args[c].commissionRate > MaxCommissionRate]_vars

\* a call was turned away for its user, on a plot that is still for sale
C15_Witness ==
    /\ resp.op = "recordTransaction"
    /\ resp.error = ErrUserNotFound
    /\ resp.tx = 0
    /\ FindPlot(resp.id).status \in {"AVAILABLE", "RESERVED"}
    /\ TxOfPlot(resp.id) = {}

\* call c takes a step
Steps(c) == pc'[c] # pc[c]

\* the plot call c names
PlotOf(c) == IF pc[c] = "idle" THEN StartedPlot(c) ELSE args[c].landPlotId

\* C16: a recordTransaction call that returns has added one Transaction row,
\* which references its plot, and has set the status of that plot to SOLD;
\* none of its steps changes another plot, another field of the plot, a
\* Transaction that was there before, or a user.
C16_SuccessFrame ==
    [][\A c \in Calls :
         Steps(c) =>
            /\ users' = users
            /\ \A q \in PlotIds :
                  \/ plots'[q] = plots[q]
                  \/ /\ q = PlotOf(c)
                     /\ pc[c] = "ms_update"
                     /\ plots'[q] = [plots[q] EXCEPT !.status = "SOLD"]
            /\ \/ transactions' = transactions
               \/ /\ pc[c] = "rt_create"
                  /\ Len(transactions') = Len(transactions) + 1
                  /\ SubSeq(transactions', 1, Len(transactions)) = transactions
                  /\ transactions'[Len(transactions')].landPlotId = PlotOf(c)
            /\ pc'[c] = "done" =>
                  /\ Len(transactions') = loc[c].len0 + 1
                  /\ plots'[PlotOf(c)].status = "SOLD"]_vars

\* a call has returned while another plot, not SOLD, and an earlier
\* Transaction are in the store
C16_Witness ==
    /\ resp.op = "recordTransaction"
    /\ resp.status = "ok"
    /\ resp.tx > 1
    /\ \E q \in PlotIds : q # resp.id /\ plots[q].exists /\ plots[q].status # "SOLD"

\* the rows whose transactionDate lies in the inclusive range of the filters
\* of the statistics request; every row when no filter is given
InRange ==
    {i \in DOMAIN transactions :
        /\ statIn.startDate = NoNum \/ statIn.startDate <= transactions[i].transactionDate
        /\ statIn.endDate = NoNum \/ transactions[i].transactionDate <= statIn.endDate}

\* the sum of a column over the rows 1..n that are in keep
RECURSIVE ColumnSum(_, _, _)
ColumnSum(n, keep, col) ==
    IF n = 0 THEN 0
    ELSE (IF n \in keep THEN transactions[n][col] ELSE 0) + ColumnSum(n - 1, keep, col)

\* C17: statistics over an empty or fully filtered-out set of Transactions
\* are all 0 (a number, never the absent value) with an empty monthly
\* breakdown
C17_EmptyStatisticsAreZero ==
    (statPc = "done" /\ InRange = {}) =>
        /\ \A k \in {"totalTransactions", "totalRevenue", "totalCommission",
                     "minPrice", "maxPrice", "netRevenue"} : statOut[k] = 0
        /\ statOut.averagePrice.num = 0
        /\ statOut.averagePrice.den # 0
        /\ statOut.monthlyBreakdown = <<>>

\* statistics were returned for a table with rows, all of them filtered out
C17_Witness ==
    /\ statPc = "done"
    /\ Len(transactions) > 0
    /\ InRange = {}
    /\ statOut.totalTransactions = 0

\* C18: the statistics are computed over exactly the Transactions whose date
\* lies in the inclusive range [startDate, endDate] (all of them without a
\* filter): their count, the sums of salePrice and commissionAmount, the
\* least, greatest and mean salePrice, and netRevenue = totalRevenue -
\* totalCommission
C18_StatisticsOverRange ==
    statPc = "done" =>
        LET n == Len(transactions)
            prices == {transactions[i].salePrice : i \in InRange}
        IN  /\ statOut.totalTransactions = Cardinality(InRange)
            /\ statOut.totalRevenue = ColumnSum(n, InRange, "salePrice")
            /\ statOut.totalCommission = ColumnSum(n, InRange, "commissionAmount")
            /\ statOut.netRevenue = statOut.totalRevenue - statOut.totalCommission
            /\ InRange # {} =>
                 /\ statOut.minPrice \in prices
                 /\ \A p \in prices : statOut.minPrice <= p
                 /\ statOut.maxPrice \in prices
                 /\ \A p \in prices : p <= statOut.maxPrice
                 /\ statOut.averagePrice.den # 0
                 /\ statOut.averagePrice.num * Cardinality(InRange)
                      = ColumnSum(n, InRange, "salePrice") * statOut.averagePrice.den

\* statistics were returned for a range that keeps a row dated on its last
\* day and leaves another row out
C18_Witness ==
    /\ statPc = "done"
    /\ statIn.startDate # NoNum
    /\ statIn.endDate # NoNum
    /\ \E i \in InRange : transactions[i].transactionDate = statIn.endDate
    /\ \E i \in DOMAIN transactions : i \notin InRange
    /\ statOut.totalTransactions = Cardinality(InRange)
    /\ statOut.minPrice < statOut.maxPrice

\* a plot number without its surrounding blanks, in capitals
Canon(s) ==
    LET inked == {i \in 1..Len(s) : s[i] # " "}
        lo == CHOOSE i \in inked : \A j \in inked : i <= j
        hi == CHOOSE i \in inked : \A j \in inked : j <= i
        Capital(ch) == IF ch = "g" THEN "G" ELSE IF ch = "b" THEN "B" ELSE ch
    IN  IF inked = {} THEN <<>>
        ELSE [i \in 1..(hi - lo + 1) |-> Capital(s[lo + i - 1])]

\* some plot has this number, case and surrounding blanks ignored
CanonTaken(number) ==
    \E q \in PlotIds : plots[q].exists /\ Canon(plots[q].plotNumber) = Canon(number)

C19_Unique ==
    \A p, q \in PlotIds :
        (p < q /\ plots[p].exists /\ plots[q].exists)
            => Canon(plots[p].plotNumber) # Canon(plots[q].plotNumber)

\* C19: no two plots share a plot number after trim and uppercase, whatever
\* createLandPlot and updateLandPlot calls ran; a createLandPlot whose number
\* equals an existing plot's, case and surrounding blanks ignored, never gets
\* past the lookup: it fails with Conflict and creates no plot, and a
\* createLandPlot that does create a plot had a number no plot held
C19_PlotNumbersUnique ==
    /\ C19_Unique
    /\ [][/\ plots' # plots => C19_Unique'
          /\ \A a \in Admins :
               /\ (apc[a] = "idle" /\ aargs'[a].op = "createLandPlot") =>
                     /\ ~CanonTaken(aargs'[a].plotNumber)
                     /\ UNCHANGED store
               /\ (AdminsIdle /\ resp'.op = "createLandPlot") =>
                     /\ resp'.status = "error"
                     /\ ErrorKind(resp'.error) = "Conflict"
                     /\ UNCHANGED store
               /\ (apc[a] = "cl_create" /\ apc'[a] # "cl_create") =>
                     /\ resp'.op = "createLandPlot"
                     /\ IF CanonTaken(aargs[a].plotNumber)
                        THEN /\ resp'.status = "error"
                             /\ ErrorKind(resp'.error) = "Conflict"
                             /\ UNCHANGED store
                        ELSE /\ resp'.status = "ok"
                             /\ ~plots[resp'.id].exists
                             /\ plots'[resp'.id].exists
                             /\ plots'[resp'.id].plotNumber = Canon(aargs[a].plotNumber)
                             /\ \A q \in PlotIds \ {resp'.id} : plots'[q] = plots[q]]_vars

\* createLandPlot was turned away with Conflict while the store had a plot
\* and room for another
C19_Witness ==
    /\ resp.op = "createLandPlot"
    /\ resp.status = "error"
    /\ resp.error = ErrPlotExists
    /\ \E q \in PlotIds : plots[q].exists
    /\ \E q \in PlotIds : ~plots[q].exists

\* C20: a request with role AUDITOR never causes a write, and only requests
\* with role ADMIN or STAFF get past the routers to recordTransaction,
\* createLandPlot, updateLandPlot and markAsSold
C20_AuditorNeverWrites ==
    [][/\ (http'.stage = "controller" /\ http'.route \in WriteRoutes)
             => http'.role \in {"ADMIN", "STAFF"}
       /\ http.role = "AUDITOR" => UNCHANGED store]_vars

\* the rows that the date filters of the paging client keep
Listed ==
    {i \in DOMAIN transactions :
        /\ listIn.startDate = NoNum \/ listIn.startDate <= transactions[i].transactionDate
        /\ listIn.endDate = NoNum \/ transactions[i].transactionDate <= listIn.endDate}

\* how often row i was returned on the pages 1..last
Returned(i, last) ==
    Cardinality({ <<k, j>> \in (1..last) \X (1..MaxRows + 1) :
                    /\ j <= Len(listOut[k].transactions)
                    /\ listOut[k].transactions[j] = i })

\* C21: page p >= 1 of getAllTransactions with page size n >= 1 over
\* totalItems filtered rows has at most n rows, as many as the positions
\* (p-1)n .. pn-1 of the sorted filtered set hold, in sort order, with
\* totalPages = ceil(totalItems / n), hasNextPage = (p < totalPages) and
\* hasPrevPage = (p > 1); over the pages 1..totalPages every filtered row is
\* returned exactly once
C21_PagesPartitionTheRows ==
    listIn.op = "getAllTransactions" =>
        \A p \in 1..Len(listOut) :
            LET r == listOut[p]
                n == listIn.limit
                left == Cardinality(Listed) - (p - 1) * n
                Date(j) == transactions[r.transactions[j]].transactionDate
            IN  /\ r.status = "ok"
                /\ r.totalItems = Cardinality(Listed)
                /\ r.totalPages * n >= r.totalItems
                /\ (r.totalPages - 1) * n < r.totalItems
                /\ r.hasNextPage = (p < r.totalPages)
                /\ r.hasPrevPage = (p > 1)
                /\ Len(r.transactions) = IF left <= 0 THEN 0 ELSE IF left < n THEN left ELSE n
                /\ \A j \in 1..Len(r.transactions) : r.transactions[j] \in Listed
                /\ \A j \in 1..(Len(r.transactions) - 1) :
                      IF listIn.sortOrder = "DESC"
                      THEN Date(j) >= Date(j + 1) ELSE Date(j) <= Date(j + 1)
                /\ p = r.totalPages => \A i \in Listed : Returned(i, p) = 1

\* C22: an updateLandPlot that sets a status DISPUTED, RESERVED or AVAILABLE
\* leaves the Transaction rows as they were, row by row and field by field,
\* and changes no plot but its own (nor a user), at each of its steps
C22_StatusUpdateFrame ==
    [][\A a \in Admins :
         LET in == IF apc[a] = "idle" THEN aargs'[a] ELSE aargs[a]
         IN  (/\ apc'[a] # apc[a] \/ aargs'[a] # aargs[a]
              /\ in.op = "updateLandPlot"
              /\ in.status \in {"DISPUTED", "RESERVED", "AVAILABLE"})
                => /\ transactions' = transactions
                   /\ users' = users
                   /\ \A q \in PlotIds \ {in.id} : plots'[q] = plots[q]]_vars

\* a plot with a Transaction was set to DISPUTED while another plot existed
C22_Witness ==
    /\ resp.op = "updateLandPlot"
    /\ resp.status = "ok"
    /\ FindPlot(resp.id).status = "DISPUTED"
    /\ TxOfPlot(resp.id) # {}
    /\ \E q \in PlotIds \ {resp.id} : plots[q].exists /\ plots[q].status # "DISPUTED"

\* C23: getTransactionStatistics, getAllTransactions, getTransactionById,
\* getRecentTransactions and calculateCommission only read: a step of any of
\* them, returning or throwing, leaves the Users, LandPlots and Transactions
\* as they were
C23_ReadsWriteNothing ==
    [][(\/ statPc' # statPc
        \/ listOut' # listOut
        \/ listPc' # listPc
        \/ readOut' # readOut
        \/ calcOut' # calcOut)
           => /\ plots' = plots
              /\ users' = users
              /\ transactions' = transactions]_vars

\* all five have run over a table with rows, getTransactionById for an id
\* that no row has
C23_Witness ==
    /\ transactions # <<>>
    /\ statPc = "done"
    /\ listOut # <<>>
    /\ calcOut # NoCalc
    /\ readOut.op = "getTransactionById"
    /\ readOut.status = "error"

\* C24: getTransactionsByUser(userId) throws NotFound ('User not found')
\* when no user has the id; otherwise every Transaction it returns was
\* created by that user and totalItems is the number of Transactions the
\* user created
C24_OnlyTheUsersTransactions ==
    listIn.op = "getTransactionsByUser" =>
        \A p \in 1..Len(listOut) :
            LET r == listOut[p]
                mine == {i \in DOMAIN transactions : transactions[i].createdBy = listIn.userId}
            IN  IF listIn.userId \notin users
                THEN r.status = "error" /\ ErrorKind(r.error) = "NotFound"
                ELSE /\ r.status = "ok"
                     /\ \A j \in 1..Len(r.transactions) : r.transactions[j] \in mine
                     /\ r.totalItems = Cardinality(mine)

\* an email without its surrounding blanks, in small letters
CanonEmail(s) ==
    LET inked == {i \in 1..Len(s) : s[i] # " "}
        lo == CHOOSE i \in inked : \A j \in inked : i <= j
        hi == CHOOSE i \in inked : \A j \in inked : j <= i
        Small(ch) == IF ch = "A" THEN "a" ELSE IF ch = "B" THEN "b" ELSE ch
    IN  IF inked = {} THEN <<>>
        ELSE [i \in 1..(hi - lo + 1) |-> Small(s[lo + i - 1])]

\* C25: no two Users have emails that are equal ignoring case, whatever
\* register calls ran; a register whose email equals an existing user's,
\* case and surrounding blanks ignored, fails with the Conflict error 'User
\* with this email already exists' and creates no user
C25_EmailsUnique ==
    /\ \A u, v \in users : u # v => CanonEmail(emails[u]) # CanonEmail(emails[v])
    /\ (regPc = "idle" /\ regIn # NoRegIn
          /\ \E u \in users : regOut.id # u /\ CanonEmail(emails[u]) = CanonEmail(regIn.email))
         => /\ regOut.status = "error"
            /\ regOut.error = ErrEmailExists

\* the sum of a field over the entries of a sequence
RECURSIVE FieldSum(_, _)
FieldSum(seq, f) ==
    IF seq = <<>> THEN 0 ELSE Head(seq)[f] + FieldSum(Tail(seq), f)

\* C26: the monthly breakdown has one entry for each calendar month that
\* holds a filtered Transaction and no other, in strictly descending order of
\* month; an entry's count, revenue and commission are those of the filtered
\* Transactions of its month, and over the entries they add up to
\* totalTransactions, totalRevenue and totalCommission
C26_MonthlyBreakdown ==
    statPc = "done" =>
        LET mb == statOut.monthlyBreakdown
            n == Len(transactions)
            Of(m) == {i \in InRange : Month(transactions[i].transactionDate) = m}
        IN  /\ {mb[k].month : k \in DOMAIN mb}
                 = {Month(transactions[i].transactionDate) : i \in InRange}
            /\ \A k \in 1..(Len(mb) - 1) : mb[k].month > mb[k + 1].month
            /\ \A k \in DOMAIN mb :
                  /\ mb[k].transactions = Cardinality(Of(mb[k].month))
                  /\ mb[k].revenue = ColumnSum(n, Of(mb[k].month), "salePrice")
                  /\ mb[k].commission = ColumnSum(n, Of(mb[k].month), "commissionAmount")
            /\ FieldSum(mb, "transactions") = statOut.totalTransactions
            /\ FieldSum(mb, "revenue") = statOut.totalRevenue
            /\ FieldSum(mb, "commission") = statOut.totalCommission

\* a breakdown of two months, one of them with two Transactions, returned
\* for filters that leave a Transaction out
C26_Witness ==
    /\ statPc = "done"
    /\ Len(statOut.monthlyBreakdown) = 2
    /\ \E k \in DOMAIN statOut.monthlyBreakdown : statOut.monthlyBreakdown[k].transactions = 2
    /\ statIn.startDate # NoNum

\* C27: POST /transactions answers every plot-state or missing-entity failure
\* of recordTransaction (plot not found, plot already sold at the first check
\* or in markAsSold, plot disputed, user not found) with 400
\* BUSINESS_LOGIC_ERROR and the message of the service, never with 500.
C27_BusinessErrorsAre400 ==
    [][(resp.op = "recordTransaction" /\ resp.status = "error" /\ resp' = NoResp
        /\ resp.error \in {ErrPlotNotFound, ErrAlreadySold, ErrMarkedSold,
                           ErrDisputed, ErrUserNotFound})
       => /\ reply'.status = 400
          /\ reply'.code = "BUSINESS_LOGIC_ERROR"
          /\ reply'.message = resp.error]_vars

\* C28: requireRole(allowedRoles) does exactly one of three things: it calls
\* next() (req.user is set and its role is among allowedRoles), it answers
\* 401 NOT_AUTHENTICATED (no req.user), or it answers 403
\* INSUFFICIENT_PERMISSIONS (a role outside allowedRoles); requireAdmin
\* admits ADMIN only, requireAdminOrStaff ADMIN and STAFF only.
C28_RequireRole ==
    \A k \in DOMAIN mwLog :
        LET e == mwLog[k]
            authenticated == e.user # None
            allowed == authenticated /\ e.user \in e.allowedRoles
        IN  /\ e.out.next <=> allowed
            /\ (e.out.status = 401 /\ e.out.code = "NOT_AUTHENTICATED") <=> ~authenticated
            /\ (e.out.status = 403 /\ e.out.code = "INSUFFICIENT_PERMISSIONS")
                   <=> (authenticated /\ ~allowed)
            /\ e.out.next => e.out.status = NoNum
            /\ e.out.status \in {NoNum, 401, 403}
            /\ (e.mw = "requireAdmin" /\ e.out.next) => e.user = "ADMIN"
            /\ (e.mw = "requireAdminOrStaff" /\ e.out.next) => e.user \in {"ADMIN", "STAFF"}
            /\ (e.mw = "requireAdmin" /\ e.user = "ADMIN") => e.out.next
            /\ (e.mw = "requireAdminOrStaff" /\ e.user \in {"ADMIN", "STAFF"}) => e.out.next

\* requireAdmin turned a STAFF user away and requireAdminOrStaff let one pass
C28_Witness ==
    /\ \E k \in DOMAIN mwLog :
          /\ mwLog[k].mw = "requireAdmin"
          /\ mwLog[k].user = "STAFF"
          /\ mwLog[k].out.status = 403
    /\ \E k \in DOMAIN mwLog :
          /\ mwLog[k].mw = "requireAdminOrStaff"
          /\ mwLog[k].user = "STAFF"
          /\ mwLog[k].out.next

\* the requests of a client that the limiter admitted
Admitted(c) == {k \in DOMAIN rlLog : rlLog[k].clientId = c /\ rlLog[k].next}

\* those of them newer than t - windowMs and not newer than t
InWindow(c, t) == {k \in Admitted(c) : rlLog[k].now > t - RlWindowMs /\ rlLog[k].now <= t}

\* how often a timestamp occurs in a list
Occurrences(timestamps, t) == Cardinality({j \in DOMAIN timestamps : timestamps[j] = t})

\* C30: rateLimit(maxRequests, windowMs) admits at most maxRequests requests
\* of one client in any window of length windowMs; a request that finds
\* maxRequests admitted requests of its client newer than now - windowMs is
\* answered 429 without next() and is not recorded, any other request is
\* admitted; only the client's own requests count.
C30_RateLimit ==
    /\ \A c \in Clients, t \in 0..MaxTime : Cardinality(InWindow(c, t)) <= RlMaxRequests
    /\ \A k \in DOMAIN rlLog :
          LET e == rlLog[k]
              before == {j \in InWindow(e.clientId, e.now) : j < k}
          IN  IF Cardinality(before) >= RlMaxRequests
              THEN ~e.next /\ e.status = 429
              ELSE e.next /\ e.status = NoNum
    /\ \A c \in Clients, t \in 0..MaxTime :
          LET recorded == IF c \in DOMAIN requests THEN Occurrences(requests[c], t) ELSE 0
          IN  recorded = IF t > clock - RlWindowMs
                         THEN Cardinality({k \in Admitted(c) : rlLog[k].now = t})
                         ELSE 0

\* a client at its limit was answered 429, the other client was admitted
\* after that, and the first one again once its window had passed
C30_Witness ==
    \E i, j, k \in DOMAIN rlLog :
        /\ i < j /\ j < k
        /\ rlLog[i].status = 429
        /\ rlLog[j].clientId # rlLog[i].clientId /\ rlLog[j].next
        /\ rlLog[j].now = rlLog[i].now
        /\ rlLog[k].clientId = rlLog[i].clientId /\ rlLog[k].next

\* C29: in every reachable state, whatever sequence and interleaving of
\* recordTransaction, markAsSold and updateLandPlot calls led to it, each
\* plot is referenced by at most one Transaction row.
C29_AtMostOneTransactionPerPlot ==
    \A p \in PlotIds : Cardinality(TxOfPlot(p)) <= 1

====
